---- MODULE Spec2Model ----
(***************************************************************************)
(* The scratch-staged run / cleanup protocol of quacc.                     *)
(*                                                                         *)
(* Two generations of the execution core are in the repository and both    *)
(* are modelled:                                                           *)
(*   quacc/util/calc.py        run_calc, run_ase_opt, run_ase_vib          *)
(*   src/quacc/runners/ase.py  run_calc, run_opt, run_vib                  *)
(* An invocation is a sequence of steps (stage, compute, archive, resync); *)
(* invocations follow one another in one process.  The file system is the  *)
(* launch directory, the scratch directory of the running invocation and   *)
(* the alias launch/tmp_dir.                                               *)
(***************************************************************************)
EXTENDS Integers, Sequences, FiniteSets

\* Invocations per behaviour (so also the number of scratch directories).
MaxRuns == 2
\* Frames a geometry-output file can hold.
MaxFrames == 2

None == "None"

(***************************************************************************)
(* Structures (ase.Atoms), reduced to the fields the runners touch.        *)
(***************************************************************************)
NumberSeqs == {<<29, 29>>, <<29, 8>>}
InitialGeometry == [positions |-> "p0", cell |-> "c0"]
FinalGeometry == [positions |-> "p1", cell |-> "c1"]
Frame(n, g) == [numbers |-> n, positions |-> g.positions, cell |-> g.cell]
Frames == {Frame(n, g) : n \in NumberSeqs, g \in {InitialGeometry, FinalGeometry}}
\* A geometry-output file: the frames of a run, from the initial geometry to
\* the final one, each with the species the engine wrote for it.
GeomFiles ==
    UNION {{f \in [1..k -> Frames] :
              /\ f[k].positions = FinalGeometry.positions
              /\ f[k].cell = FinalGeometry.cell
              /\ \A i \in 1..(k - 1) :
                    /\ f[i].positions = InitialGeometry.positions
                    /\ f[i].cell = InitialGeometry.cell} : k \in 1..MaxFrames}

NoAtoms == [numbers |-> <<>>, positions |-> None, cell |-> None,
            calc |-> None, results |-> None]
CallerAtoms == {[numbers |-> n, positions |-> "p0", cell |-> "c0",
                 calc |-> c, results |-> None] :
                  n \in NumberSeqs, c \in {None, "EMT"}}

calculator_unchecked(atoms) == TRUE
\* atoms.calc is None
has_calculator(atoms) == atoms.calc # None

\* copy_atoms: a new object with the same value
copy_atoms(atoms) == atoms

\* `atoms = copy_atoms(atoms)`: the object the local name is bound to
unbound_copy == "caller"
local_atoms == "copy"

(***************************************************************************)
(* Files.  A directory is the set of files present in it, each in plain    *)
(* or gzip form, and the frames held by its geometry-output file.          *)
(***************************************************************************)
InName == "test_file.txt"
OutName == "out.log"
GeomName == "geom.xyz"
Names == {InName, OutName, GeomName}
Forms == {"", ".gz"}
FileKeys == Names \X Forms
NoGeom == [f \in Forms |-> <<>>]
EmptyDir == [present |-> {}, geom |-> NoGeom]

\* monty.os.path.zpath: the plain name when it exists, else the compressed one
zpath(dir, name) ==
    IF <<name, "">> \in dir.present THEN <<name, "">>
    ELSE IF <<name, ".gz">> \in dir.present THEN <<name, ".gz">>
    ELSE <<name, "">>

\* os.path.exists
exists(dir, key) == key \in dir.present

keep_plain(dir) == dir
\* monty.shutil.gzip_dir: every plain file is replaced by its .gz
gzip_dir(dir) ==
    [present |-> {<<k[1], ".gz">> : k \in dir.present},
     geom |-> [f \in Forms |->
                 IF f = "" THEN <<>>
                 ELSE IF <<GeomName, "">> \in dir.present THEN dir.geom[""]
                 ELSE dir.geom[".gz"]]]

\* monty.shutil.copy_r: every file of src is copied over dst
copy_r(src, dst) ==
    [present |-> dst.present \cup src.present,
     geom |-> [f \in Forms |->
                 IF <<GeomName, f>> \in src.present THEN src.geom[f]
                 ELSE dst.geom[f]]]

\* the files of source_files that exist, in plain or compressed form
found_files(source_files, from) ==
    {n \in source_files : exists(from, zpath(from, n))}

copy_compressed(source_files, from, destination) ==
    [present |-> destination.present
                   \cup {zpath(from, n) : n \in found_files(source_files, from)},
     geom |-> [f \in Forms |->
                 IF GeomName \in found_files(source_files, from)
                    /\ f = zpath(from, GeomName)[2]
                 THEN from.geom[f]
                 ELSE destination.geom[f]]]
\* copy_decompress: each file found is copied, then decompressed in place
copy_decompress(source_files, from, destination) ==
    LET found == found_files(source_files, from)
        packed == {n \in found : zpath(from, n)[2] = ".gz"}
    IN  [present |-> (destination.present \ {<<n, ".gz">> : n \in packed})
                       \cup {<<n, "">> : n \in found},
         geom |-> [f \in Forms |->
                     IF GeomName \in found /\ f = ""
                     THEN from.geom[zpath(from, GeomName)[2]]
                     ELSE IF GeomName \in packed
                     THEN <<>>
                     ELSE destination.geom[f]]]

(***************************************************************************)
(* Geometry resynchronization.                                             *)
(***************************************************************************)
\* ase.io.read: the last frame, or (format dependent) the list of frames
read(content, as_list) ==
    [is_list |-> as_list,
     frames |-> IF as_list THEN content ELSE <<content[Len(content)]>>]

first_frame(atoms_new) == atoms_new.frames[1]
\* `if isinstance(atoms_new, list): atoms_new = atoms_new[-1]`
final_frame(atoms_new) == atoms_new.frames[Len(atoms_new.frames)]

\* np.array_equal(atoms_new.get_atomic_numbers(), atoms.get_atomic_numbers())
numbers_match(atoms_new, atoms) == atoms_new.numbers = atoms.numbers

replace_atoms(atoms, atoms_new) ==
    [NoAtoms EXCEPT !.numbers = atoms_new.numbers,
                    !.positions = atoms_new.positions, !.cell = atoms_new.cell]
\* atoms.positions = atoms_new.positions; atoms.cell = atoms_new.cell
overwrite_geometry(atoms, atoms_new) ==
    [atoms EXCEPT !.positions = atoms_new.positions, !.cell = atoms_new.cell]

read_and_replace(atoms, atoms_new) ==
    [ok |-> TRUE,
     atoms |-> [atoms EXCEPT !.numbers = final_frame(atoms_new).numbers,
                             !.positions = final_frame(atoms_new).positions,
                             !.cell = final_frame(atoms_new).cell]]
\* the sanity check and the overwrite that follows it
resynchronize(atoms, atoms_new) ==
    IF numbers_match(final_frame(atoms_new), atoms)
    THEN [ok |-> TRUE, atoms |-> overwrite_geometry(atoms, final_frame(atoms_new))]
    ELSE [ok |-> FALSE, atoms |-> atoms]

(***************************************************************************)
(* The computation (calculator, optimizer, vibrations): an external        *)
(* engine that writes files into the scratch directory and either          *)
(* finishes or raises.                                                     *)
(***************************************************************************)
CalcExceptions == {"RuntimeError", "CalledProcessError"}
Outcomes ==
    {[ok |-> TRUE, wrote_log |-> TRUE, geom |-> g, exception |-> None] :
        g \in GeomFiles \cup {<<>>}}
    \cup {[ok |-> FALSE, wrote_log |-> w, geom |-> <<>>, exception |-> e] :
            w \in BOOLEAN, e \in CalcExceptions}

\* the scratch directory after the engine has written its files
written(dir, outcome) ==
    [present |-> dir.present
                   \cup (IF outcome.wrote_log THEN {<<OutName, "">>} ELSE {})
                   \cup (IF outcome.geom # <<>> THEN {<<GeomName, "">>} ELSE {}),
     geom |-> IF outcome.geom # <<>>
              THEN [dir.geom EXCEPT ![""] = outcome.geom]
              ELSE dir.geom]

(***************************************************************************)
(* State.                                                                  *)
(***************************************************************************)
VARIABLES
    os_name,      \* os.name: "posix" or "nt"
    cwd,          \* os.getcwd(): 0 is the launch directory, k > 0 scratch directory k
    scratchRoot,  \* whether the named scratch root exists
    tmpdirs,      \* the scratch directories mkdtemp has made
    symlink,      \* target of launch/tmp_dir, 0 when there is no such link
    launch,       \* the launch (results) directory
    scratch,      \* the scratch directory of the running invocation
    heap,         \* the Atoms objects: the caller's and the copy
    atomsRef,     \* the object the local name `atoms` is bound to
    op,           \* the function invoked
    pc,           \* its position
    args,         \* its arguments
    tmpdir,       \* its local tmpdir, 0 before mkdtemp
    exc,          \* the exception that reached the caller
    raisedExc,    \* the exception the computation raised
    failure,      \* where the invocation failed
    ret,          \* the returned object
    passes,       \* archival passes made by the invocation
    runs,         \* invocations so far
    entry,        \* the state at the invocation's entry
    postCalc,     \* the local Atoms right after the computation
    geomRead      \* the geometry file content parsed by the invocation

vars == <<os_name, cwd, scratchRoot, tmpdirs, symlink, launch, scratch, heap,
          atomsRef, op, pc, args, tmpdir, exc, raisedExc, failure, ret, passes,
          runs, entry, postCalc, geomRead>>

(***************************************************************************)
(* State of the parts of the package that are studied on their own, each   *)
(* under its own specification: None while that part is not running.       *)
(***************************************************************************)
VARIABLES
    staging,      \* a call of copy_decompress: its arguments, loop index, warnings
    relax,        \* an optimization run by run_opt / run_ase_opt
    pair,         \* two invocations of quacc/util/calc.py interleaved in one process
    summary,      \* calls of CclibSummarize.run on one run directory
    cache,        \* calls of cache_calc on one Atoms
    wflow,        \* functions decorated, stripped and customized
    search,       \* a call of find_recent_logfile on a directory
    neb,          \* an invocation of run_path_opt
    inter,        \* a run_opt loop that stores intermediate results
    optrun,       \* a call of CclibSummarize.opt
    grid          \* a call of grid_prepare_repr

aux == <<staging, relax, pair, summary, cache, wflow,
         search, neb, inter, optrun, grid>>

UtilOps == {"util.run_calc", "util.run_ase_opt", "util.run_ase_vib"}
RunnerOps == {"runners.run_calc", "runners.run_opt", "runners.run_vib"}
Ops == UtilOps \cup RunnerOps

DefaultArgs == [geom_file |-> FALSE, gzip |-> FALSE, copy_files |-> FALSE,
                scratch_dir |-> FALSE, optimizer |-> "FIRE", trajectory |-> FALSE]

\* the arguments each function is called with
ArgsOf(o) ==
    {a \in [geom_file : BOOLEAN, gzip : BOOLEAN, copy_files : BOOLEAN,
            scratch_dir : BOOLEAN, optimizer : {"FIRE", "bogus"},
            trajectory : BOOLEAN] :
        /\ (o \notin {"util.run_calc", "runners.run_calc"} => ~a.geom_file)
        /\ (o \notin UtilOps => ~a.scratch_dir)
        /\ (o # "util.run_ase_opt" => a.optimizer = "FIRE")
        /\ (o \notin {"util.run_ase_opt", "runners.run_opt"} => ~a.trajectory)}

InitialLaunch ==
    {[present |-> p, geom |-> NoGeom] :
        p \in {{}, {<<InName, "">>}, {<<InName, ".gz">>}}}

Snapshot(a) == [cwd |-> cwd, scratchRoot |-> scratchRoot, tmpdirs |-> tmpdirs,
                symlink |-> symlink, launch |-> launch, atoms |-> a]

Init ==
    /\ os_name \in {"posix", "nt"}
    /\ cwd = 0
    /\ scratchRoot = FALSE
    /\ tmpdirs = {}
    /\ symlink = 0
    /\ launch \in InitialLaunch
    /\ scratch = EmptyDir
    /\ heap = [caller |-> NoAtoms, copy |-> NoAtoms]
    /\ atomsRef = "caller"
    /\ op = None
    /\ pc = "idle"
    /\ args = DefaultArgs
    /\ tmpdir = 0
    /\ exc = None
    /\ raisedExc = None
    /\ failure = None
    /\ ret = None
    /\ passes = 0
    /\ runs = 0
    /\ entry = [cwd |-> 0, scratchRoot |-> scratchRoot, tmpdirs |-> {},
                symlink |-> 0, launch |-> launch, atoms |-> NoAtoms]
    /\ postCalc = NoAtoms
    /\ geomRead = <<>>
    /\ staging = None
    /\ relax = None
    /\ pair = None
    /\ summary = None
    /\ cache = None
    /\ wflow = None
    /\ search = None
    /\ neb = None
    /\ inter = None
    /\ optrun = None
    /\ grid = None

Ended == pc \in {"returned", "raised"}

(***************************************************************************)
(* The caller.                                                             *)
(***************************************************************************)
\* A function of the execution core is called, from the launch directory,
\* with an Atoms object of the caller's.
Invoke ==
    /\ pc = "idle" \/ Ended
    /\ cwd = 0
    /\ runs < MaxRuns
    /\ \E o \in Ops, a \in CallerAtoms :
         /\ \E x \in ArgsOf(o) : args' = x
         /\ op' = o
         /\ heap' = [caller |-> a, copy |-> NoAtoms]
         /\ entry' = Snapshot(a)
    /\ atomsRef' = "caller"
    /\ pc' = "called"
    /\ tmpdir' = 0
    /\ exc' = None
    /\ raisedExc' = None
    /\ failure' = None
    /\ ret' = None
    /\ passes' = 0
    /\ runs' = runs + 1
    /\ scratch' = EmptyDir
    /\ postCalc' = NoAtoms
    /\ geomRead' = <<>>
    /\ UNCHANGED <<os_name, cwd, scratchRoot, tmpdirs, symlink, launch>>
    /\ UNCHANGED aux

\* After a run that left the process inside its scratch directory, the next
\* one is launched from the launch directory again.
caller_chdir ==
    /\ Ended
    /\ cwd # 0
    /\ cwd' = 0
    /\ UNCHANGED <<os_name, scratchRoot, tmpdirs, symlink, launch, scratch, heap,
                   atomsRef, op, pc, args, tmpdir, exc, raisedExc, failure, ret,
                   passes, runs, entry, postCalc, geomRead>>
    /\ UNCHANGED aux

(***************************************************************************)
(* Steps shared by the functions of quacc/util/calc.py.                    *)
(***************************************************************************)
\* the invocation ends with exception e, raised at `where`
Raise(e, where) ==
    /\ pc' = "raised"
    /\ exc' = e
    /\ failure' = where

keep_stale_symlink(link, t) == IF os_name # "nt" /\ link = 0 THEN t ELSE link
\* `if os.path.islink(symlink): os.unlink(symlink)`, `os.symlink(tmpdir, symlink)`
staged_symlink(link, t) == IF os_name # "nt" THEN t ELSE link

\* `if os.path.islink(symlink): os.remove(symlink)`
removed_symlink(link) == 0

\* mkdtemp: a directory that did not exist
mkdtemp == Cardinality(tmpdirs) + 1

\* copy_atoms, makedirs, mkdtemp, the alias and the copy manifest
util_stage ==
    /\ atomsRef' = local_atoms
    /\ heap' = [heap EXCEPT !.copy = copy_atoms(heap.caller)]
    /\ scratchRoot' = (scratchRoot \/ args.scratch_dir)
    /\ tmpdir' = mkdtemp
    /\ tmpdirs' = tmpdirs \cup {mkdtemp}
    /\ symlink' = staged_symlink(symlink, mkdtemp)
    /\ scratch' = IF args.copy_files
                  THEN copy_decompress({InName}, launch, EmptyDir)
                  ELSE EmptyDir
    /\ pc' = "staged"

\* gzip_dir, copy_r and the removal of the alias
util_archive ==
    /\ scratch' = (IF args.gzip THEN gzip_dir(scratch) ELSE scratch)
    /\ launch' = copy_r(scratch', launch)
    /\ symlink' = removed_symlink(symlink)
    /\ passes' = passes + 1

\* the engine runs inside the scratch directory: `os.chdir(tmpdir)`, the run,
\* `os.chdir(cwd)`; an exception leaves the function at once
util_run(moved) ==
    \E out \in Outcomes :
        /\ scratch' = written(scratch, out)
        /\ IF out.ok
           THEN /\ heap' = [heap EXCEPT ![atomsRef].results = "energy",
                                        ![atomsRef].positions =
                                            IF moved THEN "p1" ELSE @]
                /\ postCalc' = heap'[atomsRef]
                /\ cwd' = entry.cwd
                /\ pc' = "computed"
                /\ UNCHANGED <<exc, raisedExc, failure>>
           ELSE /\ cwd' = tmpdir
                /\ raisedExc' = out.exception
                /\ Raise(out.exception, "computation")
                /\ UNCHANGED <<heap, postCalc>>

(***************************************************************************)
(* quacc/util/calc.py: run_calc                                            *)
(***************************************************************************)
util_run_calc_stage ==
    /\ op = "util.run_calc"
    /\ pc = "called"
    /\ \/ /\ ~has_calculator(heap.caller)
          /\ Raise("ValueError", "validation")
          /\ UNCHANGED <<heap, atomsRef, scratchRoot, tmpdir, tmpdirs, symlink, scratch>>
       \/ /\ has_calculator(heap.caller)
          /\ util_stage
          /\ UNCHANGED <<exc, failure>>
    /\ UNCHANGED <<os_name, cwd, launch, op, args, raisedExc, ret, passes, runs,
                   entry, postCalc, geomRead>>
    /\ UNCHANGED aux

util_run_calc_calculate ==
    /\ op = "util.run_calc"
    /\ pc = "staged"
    /\ util_run(FALSE)
    /\ UNCHANGED <<os_name, scratchRoot, tmpdirs, symlink, launch, atomsRef, op,
                   args, tmpdir, ret, passes, runs, entry, geomRead>>
    /\ UNCHANGED aux

util_run_calc_archive ==
    /\ op = "util.run_calc"
    /\ pc = "computed"
    /\ util_archive
    /\ pc' = "archived"
    /\ UNCHANGED <<os_name, cwd, scratchRoot, tmpdirs, heap, atomsRef, op, args,
                   tmpdir, exc, raisedExc, failure, ret, runs, entry, postCalc,
                   geomRead>>
    /\ UNCHANGED aux

\* `if geom_file and os.path.exists(zpath(geom_file))`, read from the launch
\* directory after the copy back
util_run_calc_resync ==
    /\ op = "util.run_calc"
    /\ pc = "archived"
    /\ LET key == zpath(launch, GeomName)
       IN  \/ /\ args.geom_file /\ exists(launch, key)
              /\ \E as_list \in BOOLEAN :
                   LET r == resynchronize(heap[atomsRef],
                                          read(launch.geom[key[2]], as_list))
                   IN  /\ geomRead' = launch.geom[key[2]]
                       /\ IF r.ok
                          THEN /\ heap' = [heap EXCEPT ![atomsRef] = r.atoms]
                               /\ pc' = "returned"
                               /\ ret' = atomsRef
                               /\ UNCHANGED <<exc, failure>>
                          ELSE /\ Raise("ValueError", "resync")
                               /\ UNCHANGED <<heap, ret>>
           \/ /\ ~(args.geom_file /\ exists(launch, key))
              /\ pc' = "returned"
              /\ ret' = atomsRef
              /\ UNCHANGED <<heap, exc, failure, geomRead>>
    /\ UNCHANGED <<os_name, cwd, scratchRoot, tmpdirs, symlink, launch, scratch,
                   atomsRef, op, args, tmpdir, raisedExc, passes, runs, entry,
                   postCalc>>
    /\ UNCHANGED aux

(***************************************************************************)
(* quacc/util/calc.py: run_ase_opt                                         *)
(***************************************************************************)
\* the trajectory file of the optimizer: the caller's name or "opt.traj" in
\* run_ase_opt, always "opt.traj" in run_opt
trajectory_file(o, a) ==
    IF o = "util.run_ase_opt" /\ a.trajectory THEN "new_test.traj" ELSE "opt.traj"

KnownOptimizers == {"bfgs", "bfgslinesearch", "lbfgs", "lbfgslinesearch",
                    "gpmin", "mdmin", "fire"}
\* optimizer.lower()
lower(name) == IF name = "FIRE" THEN "fire" ELSE name

run_ase_opt_stage ==
    /\ op = "util.run_ase_opt"
    /\ pc = "called"
    /\ \/ /\ ~has_calculator(heap.caller)
          /\ Raise("ValueError", "validation")
          /\ UNCHANGED <<heap, atomsRef, scratchRoot, tmpdir, tmpdirs, symlink, scratch>>
       \/ /\ has_calculator(heap.caller)
          /\ lower(args.optimizer) \notin KnownOptimizers
          /\ atomsRef' = local_atoms
          /\ heap' = [heap EXCEPT !.copy = copy_atoms(heap.caller)]
          /\ scratchRoot' = (scratchRoot \/ args.scratch_dir)
          /\ Raise("ValueError", "validation")
          /\ UNCHANGED <<tmpdir, tmpdirs, symlink, scratch>>
       \/ /\ has_calculator(heap.caller)
          /\ lower(args.optimizer) \in KnownOptimizers
          /\ util_stage
          /\ UNCHANGED <<exc, failure>>
    /\ UNCHANGED <<os_name, cwd, launch, op, args, raisedExc, ret, passes, runs,
                   entry, postCalc, geomRead>>
    /\ UNCHANGED aux

run_ase_opt_run ==
    /\ op = "util.run_ase_opt"
    /\ pc = "staged"
    /\ \E moved \in BOOLEAN : util_run(moved)
    /\ UNCHANGED <<os_name, scratchRoot, tmpdirs, symlink, launch, atomsRef, op,
                   args, tmpdir, ret, passes, runs, entry, geomRead>>
    /\ UNCHANGED aux

run_ase_opt_archive ==
    /\ op = "util.run_ase_opt"
    /\ pc = "computed"
    /\ util_archive
    /\ pc' = "returned"
    /\ ret' = "dyn"
    /\ UNCHANGED <<os_name, cwd, scratchRoot, tmpdirs, heap, atomsRef, op, args,
                   tmpdir, exc, raisedExc, failure, runs, entry, postCalc,
                   geomRead>>
    /\ UNCHANGED aux

(***************************************************************************)
(* quacc/util/calc.py: run_ase_vib                                         *)
(***************************************************************************)
run_ase_vib_stage ==
    /\ op = "util.run_ase_vib"
    /\ pc = "called"
    /\ \/ /\ ~has_calculator(heap.caller)
          /\ Raise("ValueError", "validation")
          /\ UNCHANGED <<heap, atomsRef, scratchRoot, tmpdir, tmpdirs, symlink, scratch>>
       \/ /\ has_calculator(heap.caller)
          /\ util_stage
          /\ UNCHANGED <<exc, failure>>
    /\ UNCHANGED <<os_name, cwd, launch, op, args, raisedExc, ret, passes, runs,
                   entry, postCalc, geomRead>>
    /\ UNCHANGED aux

\* Vibrations(atoms), vib.run() and vib.summary(), all inside the scratch directory
run_ase_vib_run ==
    /\ op = "util.run_ase_vib"
    /\ pc = "staged"
    /\ util_run(FALSE)
    /\ UNCHANGED <<os_name, scratchRoot, tmpdirs, symlink, launch, atomsRef, op,
                   args, tmpdir, ret, passes, runs, entry, geomRead>>
    /\ UNCHANGED aux

run_ase_vib_archive ==
    /\ op = "util.run_ase_vib"
    /\ pc = "computed"
    /\ util_archive
    /\ pc' = "returned"
    /\ ret' = "vib"
    /\ UNCHANGED <<os_name, cwd, scratchRoot, tmpdirs, heap, atomsRef, op, args,
                   tmpdir, exc, raisedExc, failure, runs, entry, postCalc,
                   geomRead>>
    /\ UNCHANGED aux

(***************************************************************************)
(* quacc.runners.prep, used by src/quacc/runners/ase.py.                   *)
(***************************************************************************)
\* calc_setup: a unique scratch directory, the copy manifest staged into it,
\* the alias replaced, and the working context moved into it
calc_setup ==
    /\ tmpdir' = mkdtemp
    /\ tmpdirs' = tmpdirs \cup {mkdtemp}
    /\ symlink' = staged_symlink(symlink, mkdtemp)
    /\ scratch' = IF args.copy_files
                  THEN copy_decompress({InName}, launch, EmptyDir)
                  ELSE EmptyDir
    /\ cwd' = mkdtemp

\* calc_cleanup: every file of scratch copied (optionally compressed) to the
\* results directory, then the alias removed
calc_cleanup ==
    /\ cwd' = entry.cwd
    /\ scratch' = (IF args.gzip THEN gzip_dir(scratch) ELSE scratch)
    /\ launch' = copy_r(scratch', launch)
    /\ symlink' = removed_symlink(symlink)
    /\ passes' = passes + 1

\* terminate: archival of the partial output, then the exception re-raised
terminate(files, exception) ==
    /\ cwd' = entry.cwd
    /\ scratch' = (IF args.gzip THEN gzip_dir(files) ELSE files)
    /\ launch' = copy_r(scratch', launch)
    /\ symlink' = removed_symlink(symlink)
    /\ passes' = passes + 1
    /\ raisedExc' = exception
    /\ Raise(exception, "computation")

\* `try: <engine> except Exception as exception: terminate(tmpdir, exception)`
runners_run(moved) ==
    \/ /\ ~has_calculator(heap[atomsRef])
       /\ terminate(scratch, "AttributeError")
       /\ UNCHANGED <<heap, postCalc>>
    \/ /\ has_calculator(heap[atomsRef])
       /\ \E out \in Outcomes :
            IF out.ok
            THEN /\ scratch' = written(scratch, out)
                 /\ heap' = [heap EXCEPT ![atomsRef].results = "energy",
                                         ![atomsRef].positions =
                                             IF moved THEN "p1" ELSE @]
                 /\ postCalc' = heap'[atomsRef]
                 /\ pc' = "computed"
                 /\ UNCHANGED <<cwd, launch, symlink, passes, exc, raisedExc,
                                failure>>
            ELSE /\ terminate(written(scratch, out), out.exception)
                 /\ UNCHANGED <<heap, postCalc>>

\* `atoms = copy_atoms(atoms)`, `calc_setup(atoms, copy_files=copy_files)`
runners_stage ==
    /\ atomsRef' = local_atoms
    /\ heap' = [heap EXCEPT !.copy = copy_atoms(heap.caller)]
    /\ calc_setup
    /\ pc' = "staged"
    /\ UNCHANGED <<os_name, scratchRoot, launch, op, args, exc, raisedExc,
                   failure, ret, passes, runs, entry, postCalc, geomRead>>
    /\ UNCHANGED aux

(***************************************************************************)
(* src/quacc/runners/ase.py: run_calc                                      *)
(***************************************************************************)
runners_run_calc_stage ==
    /\ op = "runners.run_calc"
    /\ pc = "called"
    /\ runners_stage

runners_run_calc_calculate ==
    /\ op = "runners.run_calc"
    /\ pc = "staged"
    /\ runners_run(FALSE)
    /\ UNCHANGED <<os_name, scratchRoot, tmpdirs, atomsRef, op, args, tmpdir,
                   ret, runs, entry, geomRead>>
    /\ UNCHANGED aux

\* `if geom_file:` read from the scratch directory, check, overwrite
runners_run_calc_resync ==
    /\ op = "runners.run_calc"
    /\ pc = "computed"
    /\ LET key == zpath(scratch, GeomName)
       IN  \/ /\ args.geom_file /\ ~exists(scratch, key)
              /\ Raise("FileNotFoundError", "resync")
              /\ UNCHANGED <<heap, geomRead>>
           \/ /\ args.geom_file /\ exists(scratch, key)
              /\ \E as_list \in BOOLEAN :
                   LET r == resynchronize(heap[atomsRef],
                                          read(scratch.geom[key[2]], as_list))
                   IN  /\ geomRead' = scratch.geom[key[2]]
                       /\ IF r.ok
                          THEN /\ heap' = [heap EXCEPT ![atomsRef] = r.atoms]
                               /\ pc' = "resynced"
                               /\ UNCHANGED <<exc, failure>>
                          ELSE /\ Raise("ValueError", "resync")
                               /\ UNCHANGED heap
           \/ /\ ~args.geom_file
              /\ pc' = "resynced"
              /\ UNCHANGED <<heap, exc, failure, geomRead>>
    /\ UNCHANGED <<os_name, cwd, scratchRoot, tmpdirs, symlink, launch, scratch,
                   atomsRef, op, args, tmpdir, raisedExc, ret, passes, runs,
                   entry, postCalc>>
    /\ UNCHANGED aux

runners_run_calc_cleanup ==
    /\ op = "runners.run_calc"
    /\ pc = "resynced"
    /\ calc_cleanup
    /\ pc' = "returned"
    /\ ret' = atomsRef
    /\ UNCHANGED <<os_name, scratchRoot, tmpdirs, heap, atomsRef, op, args,
                   tmpdir, exc, raisedExc, failure, runs, entry, postCalc,
                   geomRead>>
    /\ UNCHANGED aux

(***************************************************************************)
(* src/quacc/runners/ase.py: run_opt                                       *)
(***************************************************************************)
run_opt_stage ==
    /\ op = "runners.run_opt"
    /\ pc = "called"
    /\ runners_stage

\* `if "trajectory" in optimizer_kwargs: raise ValueError(msg)`
run_opt_kwargs ==
    /\ op = "runners.run_opt"
    /\ pc = "staged"
    /\ \/ /\ args.trajectory
          /\ Raise("ValueError", "validation")
       \/ /\ ~args.trajectory
          /\ pc' = "ready"
          /\ UNCHANGED <<exc, failure>>
    /\ UNCHANGED <<os_name, cwd, scratchRoot, tmpdirs, symlink, launch, scratch,
                   heap, atomsRef, op, args, tmpdir, raisedExc, ret, passes,
                   runs, entry, postCalc, geomRead>>
    /\ UNCHANGED aux

run_opt_run ==
    /\ op = "runners.run_opt"
    /\ pc = "ready"
    /\ \E moved \in BOOLEAN : runners_run(moved)
    /\ UNCHANGED <<os_name, scratchRoot, tmpdirs, atomsRef, op, args, tmpdir,
                   ret, runs, entry, geomRead>>
    /\ UNCHANGED aux

\* the trajectory read back, calc_cleanup, `return dyn`
run_opt_cleanup ==
    /\ op = "runners.run_opt"
    /\ pc = "computed"
    /\ calc_cleanup
    /\ pc' = "returned"
    /\ ret' = "dyn"
    /\ UNCHANGED <<os_name, scratchRoot, tmpdirs, heap, atomsRef, op, args,
                   tmpdir, exc, raisedExc, failure, runs, entry, postCalc,
                   geomRead>>
    /\ UNCHANGED aux

(***************************************************************************)
(* src/quacc/runners/ase.py: run_vib                                       *)
(***************************************************************************)
run_vib_stage ==
    /\ op = "runners.run_vib"
    /\ pc = "called"
    /\ runners_stage

run_vib_run ==
    /\ op = "runners.run_vib"
    /\ pc = "staged"
    /\ runners_run(FALSE)
    /\ UNCHANGED <<os_name, scratchRoot, tmpdirs, atomsRef, op, args, tmpdir,
                   ret, runs, entry, geomRead>>
    /\ UNCHANGED aux

\* `vib.summary(log=...)`, outside the try block
run_vib_summary ==
    /\ op = "runners.run_vib"
    /\ pc = "computed"
    /\ \/ /\ pc' = "summarized"
          /\ scratch' = [scratch EXCEPT !.present = @ \cup {<<OutName, "">>}]
          /\ UNCHANGED <<exc, failure>>
       \/ /\ Raise("OSError", "summary")
          /\ UNCHANGED scratch
    /\ UNCHANGED <<os_name, cwd, scratchRoot, tmpdirs, symlink, launch, heap,
                   atomsRef, op, args, tmpdir, raisedExc, ret, passes, runs,
                   entry, postCalc, geomRead>>
    /\ UNCHANGED aux

run_vib_cleanup ==
    /\ op = "runners.run_vib"
    /\ pc = "summarized"
    /\ calc_cleanup
    /\ pc' = "returned"
    /\ ret' = "vib"
    /\ UNCHANGED <<os_name, scratchRoot, tmpdirs, heap, atomsRef, op, args,
                   tmpdir, exc, raisedExc, failure, runs, entry, postCalc,
                   geomRead>>
    /\ UNCHANGED aux

Next ==
    \/ Invoke
    \/ caller_chdir
    \/ util_run_calc_stage
    \/ util_run_calc_calculate
    \/ util_run_calc_archive
    \/ util_run_calc_resync
    \/ run_ase_opt_stage
    \/ run_ase_opt_run
    \/ run_ase_opt_archive
    \/ run_ase_vib_stage
    \/ run_ase_vib_run
    \/ run_ase_vib_archive
    \/ runners_run_calc_stage
    \/ runners_run_calc_calculate
    \/ runners_run_calc_resync
    \/ runners_run_calc_cleanup
    \/ run_opt_stage
    \/ run_opt_kwargs
    \/ run_opt_run
    \/ run_opt_cleanup
    \/ run_vib_stage
    \/ run_vib_run
    \/ run_vib_summary
    \/ run_vib_cleanup

Spec == Init /\ [][Next]_vars

(***************************************************************************)
(* The parts studied on their own.  While one of them runs, the execution  *)
(* core is not running: its state is that of a process that has not yet    *)
(* invoked anything.                                                       *)
(***************************************************************************)
CoreIdle ==
    /\ os_name = "posix"
    /\ cwd = 0
    /\ scratchRoot = FALSE
    /\ tmpdirs = {}
    /\ symlink = 0
    /\ launch = EmptyDir
    /\ scratch = EmptyDir
    /\ heap = [caller |-> NoAtoms, copy |-> NoAtoms]
    /\ atomsRef = "caller"
    /\ op = None
    /\ pc = "idle"
    /\ args = DefaultArgs
    /\ tmpdir = 0
    /\ exc = None
    /\ raisedExc = None
    /\ failure = None
    /\ ret = None
    /\ passes = 0
    /\ runs = 0
    /\ entry = [cwd |-> 0, scratchRoot |-> FALSE, tmpdirs |-> {},
                symlink |-> 0, launch |-> EmptyDir, atoms |-> NoAtoms]
    /\ postCalc = NoAtoms
    /\ geomRead = <<>>

(***************************************************************************)
(* src/quacc/util/files.py: copy_decompress, file by file.                 *)
(***************************************************************************)
\* Entries of source_files in one call.
MaxFiles == 3

\* the directories the source files are looked up in
SourceDirs == {[present |-> p, geom |-> NoGeom] : p \in SUBSET FileKeys}
SourceLists == UNION {[1..k -> Names] : k \in 0..MaxFiles}

\* shutil.copy(z_path, os.path.join(destination, z_file))
copy(destination, z_path) ==
    [destination EXCEPT !.present = @ \cup {z_path}]

\* monty.shutil.decompress_file: file.gz becomes file, any other file is left
decompress_file(destination, z_path) ==
    IF z_path[2] = ".gz"
    THEN [destination EXCEPT !.present = (@ \ {z_path}) \cup {<<z_path[1], "">>}]
    ELSE destination

abort_on_missing(call, z_path) == [call EXCEPT !.pc = "raised"]
\* warnings.warn(f"Cannot find file: {z_path}", UserWarning)
warn_missing(call, z_path) ==
    [call EXCEPT !.warnings = Append(@, z_path[1])]

notStaging == <<vars, relax, pair, summary, cache, wflow,
              search, neb, inter, optrun, grid>>

StagingInit ==
    /\ CoreIdle
    /\ \E files \in SourceLists, src \in SourceDirs :
         staging = [source_files |-> files, source |-> src,
                    destination |-> EmptyDir, i |-> 1, warnings |-> <<>>,
                    pc |-> "loop"]
    /\ relax = None
    /\ pair = None
    /\ summary = None
    /\ cache = None
    /\ wflow = None
    /\ search = None
    /\ neb = None
    /\ inter = None
    /\ optrun = None
    /\ grid = None

\* one iteration of `for f in source_files:`
copy_decompress_file ==
    /\ staging.pc = "loop"
    /\ staging.i <= Len(staging.source_files)
    /\ LET f == staging.source_files[staging.i]
           z_path == zpath(staging.source, f)
           next == [staging EXCEPT !.i = @ + 1]
       IN  staging' =
             IF exists(staging.source, z_path)
             THEN [next EXCEPT !.destination =
                                  decompress_file(copy(@, z_path), z_path)]
             ELSE warn_missing(next, z_path)
    /\ UNCHANGED notStaging

\* the loop is over: copy_decompress returns None
copy_decompress_return ==
    /\ staging.pc = "loop"
    /\ staging.i > Len(staging.source_files)
    /\ staging' = [staging EXCEPT !.pc = "returned"]
    /\ UNCHANGED notStaging

StagingNext ==
    \/ copy_decompress_file
    \/ copy_decompress_return

StagingSpec == StagingInit /\ [][StagingNext]_<<vars, aux>>

(***************************************************************************)
(* The optimization loop of run_opt (src/quacc/runners/ase.py) and of      *)
(* run_ase_opt (quacc/util/calc.py).  The optimizer is ase.optimize's:     *)
(* irun evaluates the forces of the initial geometry, logs it, writes it   *)
(* to the trajectory and yields; then, while the forces are not converged  *)
(* and nsteps < max_steps, it takes a step, logs, writes and yields again. *)
(* run() is the same loop with nothing done at the yields.                 *)
(***************************************************************************)
\* Largest step budget tried.
MaxSteps == 3
\* Largest maximum force (in units of the smallest tolerance).
MaxForce == 2

OptimizerClasses == {"BFGS", "SciPyFminBFGS"}
Tolerances == 1..MaxForce
Forces == 0..MaxForce

\* optimizer.__name__.startswith("SciPy")
is_scipy(optimizer) == optimizer = "SciPyFminBFGS"

\* the call made on dyn: `dyn.irun(...)` with the loop body, or `dyn.run(...)`
iterates(r) == r.runner = "run_opt" /\ ~is_scipy(r.optimizer)

\* Optimizer.converged: the largest force is below fmax
converged(r) == r.forces[Len(r.forces)] < r.fmax

one_step_more(r) == ~converged(r) /\ r.nsteps <= r.max_steps
\* `while not is_converged and self.nsteps < self.max_steps`
keep_going(r) == ~converged(r) /\ r.nsteps < r.max_steps

\* the trajectory observer: one frame, labelled here by the step it follows
write_frame(r) == [r EXCEPT !.traj = Append(@, r.nsteps)]

\* the body of `for i, _ in enumerate(dyn.irun(...))`: `if fn_hook: fn_hook(dyn)`
loop_body(r) ==
    IF iterates(r) /\ r.fn_hook
    THEN [r EXCEPT !.hook_calls = Append(@, r.nsteps)]
    ELSE r

notRelax == <<vars, staging, pair, summary, cache, wflow,
            search, neb, inter, optrun, grid>>

RelaxInit ==
    /\ CoreIdle
    /\ \E o \in OptimizerClasses, t \in Tolerances, m \in 0..MaxSteps,
          h \in BOOLEAN, w \in {"run_opt", "run_ase_opt"} :
         /\ w = "run_ase_opt" => (o = "BFGS" /\ ~h)
         /\ relax = [runner |-> w, optimizer |-> o, fmax |-> t, max_steps |-> m,
                     fn_hook |-> h, nsteps |-> 0, forces |-> <<>>, traj |-> <<>>,
                     traj_atoms |-> <<>>, hook_calls |-> <<>>, pc |-> "start"]
    /\ staging = None
    /\ pair = None
    /\ summary = None
    /\ cache = None
    /\ wflow = None
    /\ search = None
    /\ neb = None
    /\ inter = None
    /\ optrun = None
    /\ grid = None

\* the first pass of irun: forces of the initial geometry, the log, the first
\* frame, the first yield; a failing calculator ends the run (terminate)
irun_start ==
    /\ relax.pc = "start"
    /\ \/ \E f \in Forces :
            relax' = loop_body(write_frame(
                        [relax EXCEPT !.forces = <<f>>, !.pc = "loop"]))
       \/ relax' = [relax EXCEPT !.pc = "raised"]
    /\ UNCHANGED notRelax

\* one optimizer step: new geometry, its forces, the log, a frame, a yield
irun_step ==
    /\ relax.pc = "loop"
    /\ keep_going(relax)
    /\ \/ \E f \in Forces :
            relax' = loop_body(write_frame(
                        [relax EXCEPT !.forces = Append(@, f),
                                      !.nsteps = @ + 1]))
       \/ relax' = [relax EXCEPT !.pc = "raised"]
    /\ UNCHANGED notRelax

\* the loop is left: `dyn.traj_atoms = read(traj_file, index=":")`, cleanup,
\* `return dyn`
irun_stop ==
    /\ relax.pc = "loop"
    /\ ~keep_going(relax)
    /\ relax' = [relax EXCEPT !.traj_atoms = relax.traj, !.pc = "returned"]
    /\ UNCHANGED notRelax

RelaxNext ==
    \/ irun_start
    \/ irun_step
    \/ irun_stop

RelaxSpec ==
    RelaxInit /\ [][RelaxNext]_<<vars, aux>> /\ WF_<<vars, aux>>(RelaxNext)

(***************************************************************************)
(* Two invocations of quacc/util/calc.py (run_calc, run_ase_opt,           *)
(* run_ase_vib) launched from the same directory and interleaved in one    *)
(* process.  The process state (working directory, scratch directories,    *)
(* the link launch/tmp_dir, the launch directory) is the core's; `pair`    *)
(* holds the local variables of each invocation.                           *)
(***************************************************************************)
Invocations == {1, 2}

\* the locals of an invocation: cwd, tmpdir, and where it stands
Locals(o) == [op |-> o, pc |-> "called", cwd |-> 0, tmpdir |-> 0,
              scratch |-> EmptyDir]

notPair == <<os_name, scratchRoot, heap, atomsRef, op, pc, args, tmpdir, exc,
             raisedExc, failure, ret, passes, runs, entry, postCalc, geomRead,
             scratch, staging, relax, summary, cache, wflow,
             search, neb, inter, optrun, grid>>

InterleavedInit ==
    /\ CoreIdle
    /\ \E o1 \in UtilOps, o2 \in UtilOps :
         pair = [i \in Invocations |-> Locals(IF i = 1 THEN o1 ELSE o2)]
    /\ staging = None
    /\ relax = None
    /\ summary = None
    /\ cache = None
    /\ wflow = None
    /\ search = None
    /\ neb = None
    /\ inter = None
    /\ optrun = None
    /\ grid = None

\* `cwd = os.getcwd()`, `symlink = os.path.join(cwd, "tmp_dir")`, mkdtemp, the
\* link replaced
interleaved_stage(i) ==
    /\ pair[i].pc = "called"
    /\ cwd = 0
    /\ pair' = [pair EXCEPT ![i].cwd = cwd, ![i].tmpdir = mkdtemp,
                            ![i].pc = "staged"]
    /\ tmpdirs' = tmpdirs \cup {mkdtemp}
    /\ symlink' = staged_symlink(symlink, mkdtemp)
    /\ UNCHANGED <<cwd, launch>>
    /\ UNCHANGED notPair

\* `os.chdir(tmpdir)`
interleaved_chdir(i) ==
    /\ pair[i].pc = "staged"
    /\ cwd' = pair[i].tmpdir
    /\ pair' = [pair EXCEPT ![i].pc = "running"]
    /\ UNCHANGED <<tmpdirs, symlink, launch>>
    /\ UNCHANGED notPair

\* the engine writes its log into the process's working directory, then
\* `os.chdir(cwd)`; an exception leaves the function at once
interleaved_run(i) ==
    /\ pair[i].pc = "running"
    /\ \E ok \in BOOLEAN :
         /\ pair' = [j \in Invocations |->
                       [pair[j] EXCEPT
                          !.scratch = IF cwd = pair[j].tmpdir
                                      THEN copy(@, <<OutName, "">>) ELSE @,
                          !.pc = IF j # i THEN @
                                 ELSE IF ok THEN "computed" ELSE "raised"]]
         /\ cwd' = IF ok THEN pair[i].cwd ELSE cwd
    /\ launch' = IF cwd = 0 THEN copy(launch, <<OutName, "">>) ELSE launch
    /\ UNCHANGED <<tmpdirs, symlink>>
    /\ UNCHANGED notPair

\* copy_r(tmpdir, cwd), `if os.path.islink(symlink): os.remove(symlink)`
interleaved_archive(i) ==
    /\ pair[i].pc = "computed"
    /\ launch' = copy_r(pair[i].scratch, launch)
    /\ symlink' = removed_symlink(symlink)
    /\ pair' = [pair EXCEPT ![i].pc = "returned"]
    /\ UNCHANGED <<cwd, tmpdirs>>
    /\ UNCHANGED notPair

InterleavedNext ==
    \E i \in Invocations :
        \/ interleaved_stage(i)
        \/ interleaved_chdir(i)
        \/ interleaved_run(i)
        \/ interleaved_archive(i)

InterleavedSpec == InterleavedInit /\ [][InterleavedNext]_<<vars, aux>>

(***************************************************************************)
(* src/quacc/schemas/cclib.py: CclibSummarize.run on a run directory.      *)
(* A directory is its listing (os.listdir order): files with their change  *)
(* time and, for a log, what cclib parses from it.                         *)
(***************************************************************************)
\* Log files in the run directory.
MaxLogs == 2
\* Directories step0, step1, ... in the run directory.
MaxStepDirs == 1
\* Calls of run on one CclibSummarize object.
MaxCalls == 2

QuaccDefault == "QuaccDefault"
ResultsFile == "quacc_results.json.gz"
LogNames == {"orca.out", "opt.log"}
LogExtensions == {".out", ".log"}

\* `ext in f`: the extensions that occur in a file name
Within(name) ==
    CASE name = "orca.out" -> {".out"}
      [] name = "opt.log" -> {".log"}
      [] name = ResultsFile -> {".json", ".gz"}
      [] OTHER -> {}

\* what ccread makes of a file: "garbage" is a file it cannot parse, the other
\* values are the optdone attribute of a parsed log (absent: no such attribute)
Parses == {"True", "False", "absent", "garbage"}
LogFiles == [name : LogNames, mtime : 1..MaxLogs, optdone : Parses]
Listings ==
    UNION {{l \in [1..k -> LogFiles] :
              \A i \in 1..k, j \in 1..k : i # j => l[i].name # l[j].name}
           : k \in 0..MaxLogs}

NoFile == [name |-> None, mtime |-> 0, optdone |-> "garbage"]

any_file(ext, f) == TRUE
\* `ext in f`
matches(ext, f) == ext \in Within(f.name)

\* find_recent_logfile: the loop over os.listdir, from entry k on
RECURSIVE find_recent_logfile(_, _, _, _)
find_recent_logfile(listing, logfile_extensions, k, logfile) ==
    IF k > Len(listing) THEN logfile
    ELSE LET f == listing[k]
         IN  IF /\ \E ext \in logfile_extensions : matches(ext, f)
                /\ f.mtime > logfile.mtime
             THEN find_recent_logfile(listing, logfile_extensions, k + 1, f)
             ELSE find_recent_logfile(listing, logfile_extensions, k + 1, logfile)

\* dict | dict: the right operand wins
Merge(a, b) ==
    [k \in DOMAIN a \cup DOMAIN b |-> IF k \in DOMAIN b THEN b[k] ELSE a[k]]
NoDoc == [k \in {} |-> None]

\* make_base_cclib_schema: the log found and parsed, or the exception raised
make_base_cclib_schema(listing, logfile_extensions) ==
    LET logfile == find_recent_logfile(listing, logfile_extensions, 1, NoFile)
    IN  IF logfile.name = None
        THEN [raised |-> "FileNotFoundError", doc |-> NoDoc, optdone |-> "unparsed"]
        ELSE IF logfile.optdone = "garbage"
        THEN [raised |-> "RuntimeError", doc |-> NoDoc, optdone |-> "unparsed"]
        ELSE [raised |-> None,
              doc |-> [logfile |-> logfile.name, attributes |-> logfile.optdone,
                       pop_analysis |-> None, trajectory |-> "atomcoords"],
              optdone |-> logfile.optdone]

\* `self.check_convergence == QuaccDefault` resolved against the settings
check_convergence(self, settings) ==
    IF self.check_convergence = QuaccDefault
    THEN settings.CHECK_CONVERGENCE
    ELSE self.check_convergence

unconverged_or_unknown(check, optdone) == check = "True" /\ optdone # "True"
\* `if self.check_convergence and attributes.get("optdone") is False`
convergence_error(check, optdone) == check = "True" /\ optdone = "False"

\* `len([f for f in os.listdir(directory) if f.startswith("step")])` and the
\* documents of the step directories
intermediate_cclib_task_docs(nsteps) ==
    IF nsteps # 0 THEN [steps |-> nsteps] ELSE NoDoc

\* Summarize(charge_and_multiplicity=...).run(final_atoms, input_atoms, store=None)
run_task_doc(final_atoms, input_atoms) ==
    [atoms |-> final_atoms, input_atoms |-> input_atoms,
     charge |-> "charge", spin_multiplicity |-> "mult"]

AdditionalFields == {NoDoc, [name |-> "job"], [logfile |-> "mine"]}

notSummary == <<vars, staging, relax, pair, cache, wflow,
              search, neb, inter, optrun, grid>>

SummarizeInit ==
    /\ CoreIdle
    /\ \E l \in Listings, n \in 0..MaxStepDirs, e \in LogExtensions,
          c \in {"True", "False", QuaccDefault}, a \in AdditionalFields,
          sc \in {"True", "False"}, ss \in {None, "db"},
          st \in {None, "db", QuaccDefault} :
         summary = [listing |-> l, nsteps |-> n,
                    self |-> [logfile_extensions |-> {e}, check_convergence |-> c,
                              additional_fields |-> a],
                    settings |-> [CHECK_CONVERGENCE |-> sc, STORE |-> ss],
                    store |-> st, db |-> <<>>, results |-> <<>>]
    /\ staging = None
    /\ relax = None
    /\ pair = None
    /\ cache = None
    /\ wflow = None
    /\ search = None
    /\ neb = None
    /\ inter = None
    /\ optrun = None
    /\ grid = None

\* finalize_dict(unsorted_task_doc, directory=directory, gzip_file=..., store=store):
\* the document written as a results file into the directory, inserted into
\* the store when there is one, and returned
finalize_dict(s, doc, store, optdone) ==
    [s EXCEPT
       !.listing =
          IF \E i \in 1..Len(@) : @[i].name = ResultsFile THEN @
          ELSE Append(@, [name |-> ResultsFile, mtime |-> MaxLogs + 1,
                          optdone |-> "garbage"]),
       !.db = IF store # None THEN Append(@, doc) ELSE @,
       !.results = Append(@, [raised |-> None, doc |-> doc, optdone |-> optdone,
                              inserted |-> store # None])]

\* one call of CclibSummarize.run(final_atoms, store)
CclibSummarize_run ==
    /\ Len(summary.results) < MaxCalls
    /\ LET self == summary.self
           store == IF summary.store = QuaccDefault
                    THEN summary.settings.STORE ELSE summary.store
           base == make_base_cclib_schema(summary.listing, self.logfile_extensions)
           failed(e, flag) ==
               [summary EXCEPT !.results =
                   Append(@, [raised |-> e, doc |-> NoDoc, optdone |-> flag,
                              inserted |-> FALSE])]
       IN  summary' =
             IF base.raised # None
             THEN failed(base.raised, base.optdone)
             ELSE IF convergence_error(check_convergence(self, summary.settings),
                                       base.optdone)
             THEN failed("RuntimeError", base.optdone)
             ELSE finalize_dict(
                    summary,
                    Merge(Merge(Merge(run_task_doc("final_atoms", "trajectory[0]"),
                                      intermediate_cclib_task_docs(summary.nsteps)),
                                base.doc),
                          self.additional_fields),
                    store, base.optdone)
    /\ UNCHANGED notSummary

SummarizeNext == CclibSummarize_run

SummarizeSpec == SummarizeInit /\ [][SummarizeNext]_<<vars, aux>>

(***************************************************************************)
(* htase/util/calc.py: cache_calc.  An Atoms is its calculator (a sequence *)
(* holding the calculator's results, empty for calc = None), the entries   *)
(* calc0, calc1, ... of info["results"] in order, and its initial magnetic *)
(* moments.                                                                *)
(***************************************************************************)
\* Entries of atoms.info["results"].
MaxCached == 2

Magmoms == {"0.0", "2.5"}
CalcResults == [magmom : Magmoms, magmoms : {"absent", "moments"}, rundir : {None}]
NoCalc == <<>>
CachedAtoms == [calc : {NoCalc} \cup {<<r>> : r \in CalcResults},
                info_results : {<<>>}, initial_magmoms : {"unset"}]

\* `getattr(atoms.calc, "results", None) is not None`
has_results(atoms) == atoms.calc # NoCalc

\* `atoms.calc.results["rundir"] = os.getcwd()` and the entry calcN added,
\* N = len(atoms.info["results"])
store(atoms) ==
    LET results == [atoms.calc[1] EXCEPT !.rundir = "cwd"]
    IN  [atoms EXCEPT !.calc = <<results>>,
                      !.info_results = Append(@, results)]

\* set_initial_magnetic_moments(results.get("magmoms", [0.0] * len(atoms)))
move(atoms) ==
    [atoms EXCEPT !.initial_magmoms =
        IF atoms.calc[1].magmoms = "absent" THEN "zeros" ELSE atoms.calc[1].magmoms]

\* cache_calc(atoms, move_magmoms, store_results) on a deepcopy of atoms
cache_calc(atoms, move_magmoms, store_results) ==
    LET stored == IF has_results(atoms) /\ store_results THEN store(atoms) ELSE atoms
        moved == IF has_results(atoms) /\ move_magmoms THEN move(stored) ELSE stored
    IN  [moved EXCEPT !.calc = NoCalc]

notCache == <<vars, staging, relax, pair, summary, wflow,
            search, neb, inter, optrun, grid>>

CacheInit ==
    /\ CoreIdle
    /\ \E a \in CachedAtoms :
         cache = [atoms |-> a, passed |-> a, before |-> a,
                  move_magmoms |-> TRUE, store_results |-> FALSE, calls |-> 0]
    /\ staging = None
    /\ relax = None
    /\ pair = None
    /\ summary = None
    /\ wflow = None
    /\ search = None
    /\ neb = None
    /\ inter = None
    /\ optrun = None
    /\ grid = None

\* `atoms = cache_calc(atoms, ...)`; the defaults are move_magmoms=True,
\* store_results=False
cache_calc_call ==
    /\ Len(cache.atoms.info_results) < MaxCached
    /\ cache.calls <= MaxCached
    /\ \E move_magmoms \in BOOLEAN, store_results \in BOOLEAN :
         cache' = [atoms |-> cache_calc(cache.atoms, move_magmoms, store_results),
                   passed |-> cache.atoms,
                   before |-> cache.atoms,
                   move_magmoms |-> move_magmoms,
                   store_results |-> store_results,
                   calls |-> cache.calls + 1]
    /\ UNCHANGED notCache

\* a new calculation on the returned Atoms attaches a calculator with results
attach_calculator ==
    /\ cache.calls > 0
    /\ cache.atoms.calc = NoCalc
    /\ \E r \in CalcResults :
         cache' = [cache EXCEPT !.atoms.calc = <<r>>]
    /\ UNCHANGED notCache

CacheNext ==
    \/ cache_calc_call
    \/ attach_calculator

CacheSpec == CacheInit /\ [][CacheNext]_<<vars, aux>>

(***************************************************************************)
(* src/quacc/wflow_tools/decorators.py.  Callables are objects of a objs   *)
(* (their identity is their index): a Python function, or the object a     *)
(* workflow engine's decorator, functools.partial or functools.wraps makes *)
(* of one.  func is the callable an object calls, wrapped its __wrapped__  *)
(* attribute; 0 stands for none.                                           *)
(***************************************************************************)
Engines == {"covalent", "jobflow", "parsl", "redun", "dask", "local"}
Decorators == {"job", "flow", "subflow"}
FuncNames == {"relax_job", "static_job"}

Callable(kind, code, func, wrapped) ==
    [kind |-> kind, code |-> code, func |-> func, wrapped |-> wrapped]

\* a new object
alloc(objs, obj) == [objs |-> Append(objs, obj), id |-> Len(objs) + 1]

\* `if not hasattr(decorated, "__wrapped__"): decorated.__wrapped__ = _func`
set_wrapped(r, _func) ==
    IF r.objs[r.id].wrapped = 0
    THEN [r EXCEPT !.objs[r.id].wrapped = _func]
    ELSE r

\* functools.wraps(_func): a function that calls _func, __wrapped__ = _func
wraps(objs, kind, _func) == alloc(objs, Callable(kind, None, _func, _func))
\* an engine object that calls _func and has no __wrapped__ of its own
engine_object(objs, kind, _func) == alloc(objs, Callable(kind, None, _func, 0))

\* job(_func)
job(engine, objs, _func) ==
    set_wrapped(
      CASE engine = "covalent" -> wraps(objs, "electron", _func)
        [] engine = "jobflow" -> wraps(objs, "jf_job", _func)
        [] engine = "parsl" -> engine_object(objs, "python_app", _func)
        [] engine = "redun" -> engine_object(objs, "task", _func)
        [] engine = "dask" -> engine_object(objs, "delayed", _func)
        [] OTHER -> [objs |-> objs, id |-> _func],
      _func)

\* flow(_func)
flow(engine, objs, _func) ==
    CASE engine = "covalent" -> engine_object(objs, "lattice", _func)
      [] engine = "redun" -> set_wrapped(engine_object(objs, "task", _func), _func)
      [] OTHER -> set_wrapped([objs |-> objs, id |-> _func], _func)

\* subflow(_func)
subflow(engine, objs, _func) ==
    CASE engine = "covalent" ->
           LET lattice == engine_object(objs, "lattice", _func)
           IN  wraps(lattice.objs, "electron", lattice.id)
      [] engine = "parsl" ->
           set_wrapped(engine_object(objs, "join_app", _func), _func)
      [] engine = "redun" ->
           set_wrapped(engine_object(objs, "task", _func), _func)
      [] engine = "dask" -> wraps(objs, "_inner", _func)
      [] OTHER -> set_wrapped([objs |-> objs, id |-> _func], _func)

decorate(decorator, engine, objs, _func) ==
    CASE decorator = "job" -> job(engine, objs, _func)
      [] decorator = "flow" -> flow(engine, objs, _func)
      [] OTHER -> subflow(engine, objs, _func)

\* strip_decorator(func): one __wrapped__ followed, then a covalent Lattice
\* replaced by its deserialized workflow function (a copy)
strip_decorator(engine, objs, func) ==
    LET inner == IF objs[func].wrapped # 0 THEN objs[func].wrapped ELSE func
    IN  IF engine = "covalent" /\ objs[inner].kind = "lattice"
        THEN alloc(objs, objs[objs[inner].func])
        ELSE [objs |-> objs, id |-> inner]

\* functools.partial(func, **valid_params)
partial(objs, func) == alloc(objs, Callable("partial", None, func, 0))

\* update_parameters(func, params)
update_parameters(engine, objs, func) ==
    partial(strip_decorator(engine, objs, func).objs, func)

\* redecorate(func, decorator); decorator(func) is an object of the decorator's
redecorate(engine, objs, func, decorator) ==
    LET stripped == strip_decorator(engine, objs, func)
    IN  IF decorator = None THEN stripped
        ELSE alloc(stripped.objs, Callable(decorator, None, stripped.id, stripped.id))

\* the body of `for func_name, func in funcs.items():`
customize_func(engine, objs, func_name, func, decorators, common_params) ==
    LET updated == IF common_params
                   THEN update_parameters(engine, objs, func)
                   ELSE [objs |-> objs, id |-> func]
    IN  IF func_name \in DOMAIN decorators
        THEN redecorate(engine, updated.objs, updated.id, decorators[func_name])
        ELSE updated

\* customize_funcs(funcs, decorators, common_params), from entry k of funcs on
RECURSIVE customize_funcs(_, _, _, _, _, _, _)
customize_funcs(engine, objs, funcs, decorators, common_params, k, updated_funcs) ==
    IF k > Len(funcs) THEN [objs |-> objs, updated_funcs |-> updated_funcs]
    ELSE LET r == customize_func(engine, objs, funcs[k].name, funcs[k].func,
                                 decorators, common_params)
         IN  customize_funcs(engine, r.objs, funcs, decorators, common_params,
                             k + 1, Append(updated_funcs, r.id))

\* the functions decorated: a plain one, or one made with functools.wraps, as
\* phonon_subflow under monty.dev.requires
DefinedFunctions ==
    {[objs |-> <<Callable("function", "f", 0, 0)>>, f |-> 1],
     [objs |-> <<Callable("function", "f", 0, 0),
                 Callable("function", "requires", 1, 1)>>, f |-> 2]}

DecoratorDicts ==
    UNION {[names -> {None, "custom"}] : names \in SUBSET FuncNames}

notWflow == <<vars, staging, relax, pair, summary, cache,
            search, neb, inter, optrun, grid>>

DecoratorInit ==
    /\ CoreIdle
    /\ \E e \in Engines, d \in DefinedFunctions, w \in Decorators :
         wflow = [engine |-> e, objs |-> d.objs, f |-> d.f, decorator |-> w,
                  decorated |-> 0, stripped |-> 0, funcs |-> <<>>,
                  decorators |-> <<>>, common_params |-> FALSE,
                  updated_funcs |-> <<>>, pc |-> "defined"]
    /\ staging = None
    /\ relax = None
    /\ pair = None
    /\ summary = None
    /\ cache = None
    /\ search = None
    /\ neb = None
    /\ inter = None
    /\ optrun = None
    /\ grid = None

\* `@job`, `@flow` or `@subflow` applied to the function
decorate_function ==
    /\ wflow.pc = "defined"
    /\ LET r == decorate(wflow.decorator, wflow.engine, wflow.objs, wflow.f)
       IN  wflow' = [wflow EXCEPT !.objs = r.objs, !.decorated = r.id,
                                  !.pc = "decorated"]
    /\ UNCHANGED notWflow

\* strip_decorator(decorated)
strip_decorator_call ==
    /\ wflow.pc = "decorated"
    /\ LET r == strip_decorator(wflow.engine, wflow.objs, wflow.decorated)
       IN  wflow' = [wflow EXCEPT !.objs = r.objs, !.stripped = r.id,
                                  !.pc = "stripped"]
    /\ UNCHANGED notWflow

\* customize_funcs(funcs, decorators, common_params) on the decorated function,
\* given under one or two names
customize_funcs_call ==
    /\ wflow.pc = "decorated"
    /\ \E n \in 1..2, decorators \in DecoratorDicts, common_params \in BOOLEAN :
         LET funcs == [k \in 1..n |->
                         [name |-> IF k = 1 THEN "relax_job" ELSE "static_job",
                          func |-> wflow.decorated]]
             r == customize_funcs(wflow.engine, wflow.objs, funcs, decorators,
                                  common_params, 1, <<>>)
         IN  wflow' = [wflow EXCEPT !.objs = r.objs, !.funcs = funcs,
                                    !.decorators = decorators,
                                    !.common_params = common_params,
                                    !.updated_funcs = r.updated_funcs,
                                    !.pc = "customized"]
    /\ UNCHANGED notWflow

DecoratorNext ==
    \/ decorate_function
    \/ strip_decorator_call
    \/ customize_funcs_call

DecoratorSpec == DecoratorInit /\ [][DecoratorNext]_<<vars, aux>>

(***************************************************************************)
(* src/quacc/util/files.py: find_recent_logfile on its own.  A file name   *)
(* and an extension are sequences of name parts, so that `ext in f` is the *)
(* substring test it is in Python; a directory is its os.listdir order.    *)
(***************************************************************************)
\* Entries of the directory searched.
MaxEntries == 3
\* Greatest modification time of a file (0 is the epoch).
MaxMtime == 2
\* Extensions given in one call.
MaxExtensions == 2

FileNames == {<<"orca", ".out">>, <<"orca", ".out", ".bak">>, <<"opt", ".log">>}
ExtensionNames == {<<".out">>, <<".log">>, <<"orca", ".out">>}
DirEntries == [name : FileNames, mtime : 0..MaxMtime]
Directories ==
    UNION {{l \in [1..k -> DirEntries] :
              \A i \in 1..k, j \in 1..k : i # j => l[i].name # l[j].name}
           : k \in 0..MaxEntries}
ExtensionLists == UNION {[1..k -> ExtensionNames] : k \in 1..MaxExtensions}

\* `logfile = None`: no name
NoLogfile == <<>>

\* `ext in f`
ext_in(ext, f) ==
    \E i \in 0..(Len(f) - Len(ext)) : SubSeq(f, i + 1, i + Len(ext)) = ext

not_older(mtime, mod_time) == mtime >= mod_time
\* `os.path.getmtime(f_path) > mod_time`
newer(mtime, mod_time) == mtime > mod_time

\* `for ext in logfile_extensions:` on one file, from extension e on
RECURSIVE scan_extensions(_, _, _, _)
scan_extensions(f, logfile_extensions, e, found) ==
    IF e > Len(logfile_extensions) THEN found
    ELSE scan_extensions(
           f, logfile_extensions, e + 1,
           IF ext_in(logfile_extensions[e], f.name) /\ newer(f.mtime, found.mod_time)
           THEN [mod_time |-> f.mtime, logfile |-> f.name]
           ELSE found)

\* `for f in os.listdir(dir_name):` from entry k on
RECURSIVE scan_directory(_, _, _, _)
scan_directory(listing, logfile_extensions, k, found) ==
    IF k > Len(listing) THEN found
    ELSE scan_directory(listing, logfile_extensions, k + 1,
                        scan_extensions(listing[k], logfile_extensions, 1, found))

\* find_recent_logfile(dir_name, logfile_extensions), a single string made a list
most_recent_logfile(listing, logfile_extensions) ==
    scan_directory(listing, logfile_extensions, 1,
                   [mod_time |-> 0, logfile |-> NoLogfile]).logfile

notSearch == <<vars, staging, relax, pair, summary, cache, wflow,
               neb, inter, optrun, grid>>

LogfileInit ==
    /\ CoreIdle
    /\ \E l \in Directories, e \in ExtensionLists :
         search = [listing |-> l, logfile_extensions |-> e, logfile |-> NoLogfile,
                   pc |-> "called"]
    /\ staging = None
    /\ relax = None
    /\ pair = None
    /\ summary = None
    /\ cache = None
    /\ wflow = None
    /\ neb = None
    /\ inter = None
    /\ optrun = None
    /\ grid = None

find_recent_logfile_call ==
    /\ search.pc = "called"
    /\ search' = [search EXCEPT
                    !.logfile = most_recent_logfile(search.listing,
                                                    search.logfile_extensions),
                    !.pc = "returned"]
    /\ UNCHANGED notSearch

LogfileNext == find_recent_logfile_call

LogfileSpec == LogfileInit /\ [][LogfileNext]_<<vars, aux>>

(***************************************************************************)
(* src/quacc/runners/ase.py: run_path_opt.  `neb` holds the invocation's   *)
(* arguments, dir_lists, the calls of calc_cleanup made, and its position. *)
(***************************************************************************)
\* Images of the path.
MaxImages == 3

PathArgs == [nimages : 1..MaxImages, trajectory : BOOLEAN, neb_kwargs : BOOLEAN,
             copy_files : BOOLEAN]

\* calc_setup(image, copy_files=copy_files) -> (tmpdir_i, job_results_dir_i):
\* a scratch directory and a results directory made for this call
calc_setup_dirs(made) == <<made + 1, made + 1>>

notNeb == <<vars, staging, relax, pair, summary, cache, wflow,
            search, inter, optrun, grid>>

PathInit ==
    /\ CoreIdle
    /\ \E a \in PathArgs :
         neb = [args |-> a, dir_lists |-> <<>>, cleaned |-> <<>>, exc |-> None,
                pc |-> "called"]
    /\ staging = None
    /\ relax = None
    /\ pair = None
    /\ summary = None
    /\ cache = None
    /\ wflow = None
    /\ search = None
    /\ inter = None
    /\ optrun = None
    /\ grid = None

\* `images = copy_atoms(images)`, `neb = NEB(images, **neb_kwargs)`: with the
\* default neb_kwargs=None the call `**None` raises TypeError
run_path_opt_neb ==
    /\ neb.pc = "called"
    /\ neb' = IF neb.args.neb_kwargs
              THEN [neb EXCEPT !.pc = "staging"]
              ELSE [neb EXCEPT !.pc = "raised", !.exc = "TypeError"]
    /\ UNCHANGED notNeb

\* one pass of `for image in images: ... dir_lists.append(...)`
run_path_opt_stage ==
    /\ neb.pc = "staging"
    /\ Len(neb.dir_lists) < neb.args.nimages
    /\ neb' = [neb EXCEPT !.dir_lists = Append(@, calc_setup_dirs(Len(@)))]
    /\ UNCHANGED notNeb

\* `if "trajectory" in optimizer_kwargs: raise ValueError(msg)`
run_path_opt_kwargs ==
    /\ neb.pc = "staging"
    /\ Len(neb.dir_lists) = neb.args.nimages
    /\ neb' = IF neb.args.trajectory
              THEN [neb EXCEPT !.pc = "raised", !.exc = "ValueError"]
              ELSE [neb EXCEPT !.pc = "ready"]
    /\ UNCHANGED notNeb

\* `with traj, optimizer(neb, **optimizer_kwargs) as dyn: dyn.run(...)`, then
\* the trajectory read back; an exception leaves the function
run_path_opt_run ==
    /\ neb.pc = "ready"
    /\ \E e \in {None} \cup CalcExceptions :
         neb' = IF e = None
                THEN [neb EXCEPT !.pc = "cleanup"]
                ELSE [neb EXCEPT !.pc = "raised", !.exc = e]
    /\ UNCHANGED notNeb

\* one pass of `for ii, image in enumerate(images): calc_cleanup(image, ...)`
run_path_opt_cleanup ==
    /\ neb.pc = "cleanup"
    /\ Len(neb.cleaned) < neb.args.nimages
    /\ neb' = [neb EXCEPT !.cleaned =
                 Append(@, [image |-> Len(@) + 1,
                            tmpdir |-> neb.dir_lists[Len(@) + 1][1],
                            job_results_dir |-> neb.dir_lists[Len(@) + 1][2]])]
    /\ UNCHANGED notNeb

\* `return dyn`
run_path_opt_return ==
    /\ neb.pc = "cleanup"
    /\ Len(neb.cleaned) = neb.args.nimages
    /\ neb' = [neb EXCEPT !.pc = "returned"]
    /\ UNCHANGED notNeb

PathNext ==
    \/ run_path_opt_neb
    \/ run_path_opt_stage
    \/ run_path_opt_kwargs
    \/ run_path_opt_run
    \/ run_path_opt_cleanup
    \/ run_path_opt_return

PathSpec == PathInit /\ [][PathNext]_<<vars, aux>>

(***************************************************************************)
(* src/quacc/runners/ase.py: run_opt with store_intermediate_results.      *)
(* `inter` holds the optimizer class, the keys of optimizer_kwargs, the    *)
(* items of the scratch directory other than the step directories, and the *)
(* content of step0, step1, ... in order.                                  *)
(***************************************************************************)
StoringOptimizers == {"BFGS", "Sella", "IRC", "SciPyFminBFGS"}
TrajFile == "opt.traj"
RestartFile == "opt.json"
LogFile == "opt.log"

\* "Handle optimizer kwargs": the keys left in optimizer_kwargs
handled_kwargs(optimizer) ==
    IF is_scipy(optimizer) \/ optimizer = "IRC"
    THEN {"logfile"}
    ELSE {"logfile", "restart"}

\* `files_to_ignore=[traj_file, optimizer_kwargs["restart"], optimizer_kwargs["logfile"]]`
files_to_ignore(kwargs) ==
    IF "restart" \in kwargs
    THEN [raised |-> None, files |-> {TrajFile, RestartFile, LogFile}]
    ELSE [raised |-> "KeyError", files |-> {}]

\* _copy_intermediate_files: the content of the new step directory; items
\* whose name starts with "step" (the step directories) are skipped
copy_intermediate_files(items, ignored) == items \ ignored

notInter == <<vars, staging, relax, pair, summary, cache, wflow,
              search, neb, optrun, grid>>

StoreInit ==
    /\ CoreIdle
    /\ \E o \in StoringOptimizers, st \in BOOLEAN, staged \in SUBSET {"orca.inp"} :
         inter = [optimizer |-> o, store_intermediate_results |-> st,
                  optimizer_kwargs |-> {"logfile", "restart"},
                  items |-> staged, steps |-> <<>>, nsteps |-> 0, passes |-> 0,
                  exc |-> None, pc |-> "staged"]
    /\ staging = None
    /\ relax = None
    /\ pair = None
    /\ summary = None
    /\ cache = None
    /\ wflow = None
    /\ search = None
    /\ neb = None
    /\ optrun = None
    /\ grid = None

\* the kwargs handled, the Trajectory opened, the optimizer made and the
\* initial forces computed
store_prepare ==
    /\ inter.pc = "staged"
    /\ inter' = [inter EXCEPT
                   !.optimizer_kwargs = handled_kwargs(inter.optimizer),
                   !.items = @ \cup {TrajFile, LogFile, "orca.out"}
                               \cup (IF "restart" \in handled_kwargs(inter.optimizer)
                                     THEN {RestartFile} ELSE {}),
                   !.pc = IF is_scipy(inter.optimizer) THEN "running" ELSE "yielded"]
    /\ UNCHANGED notInter

\* `dyn.run(fmax=fmax, steps=max_steps, **run_kwargs)` for a SciPy optimizer
store_scipy_run ==
    /\ inter.pc = "running"
    /\ \E n \in 0..MaxSteps, e \in {None} \cup CalcExceptions :
         inter' = [inter EXCEPT !.nsteps = n,
                                !.exc = e,
                                !.pc = IF e = None THEN "returned" ELSE "raised"]
    /\ UNCHANGED notInter

\* the loop body, run for one value yielded by dyn.irun
store_loop_body ==
    /\ inter.pc = "yielded"
    /\ LET ignore == files_to_ignore(inter.optimizer_kwargs)
       IN  inter' =
             IF ~inter.store_intermediate_results
             THEN [inter EXCEPT !.passes = @ + 1, !.pc = "stepping"]
             ELSE IF ignore.raised # None
             THEN [inter EXCEPT !.passes = @ + 1, !.exc = ignore.raised,
                                !.pc = "raised"]
             ELSE [inter EXCEPT
                     !.steps = Append(@, copy_intermediate_files(inter.items,
                                                                 ignore.files)),
                     !.passes = @ + 1, !.pc = "stepping"]
    /\ UNCHANGED notInter

\* dyn.irun between two yields: the loop ends, or one more step is taken and
\* the engine and the optimizer write their files, or the engine raises
store_irun ==
    /\ inter.pc = "stepping"
    /\ \/ inter' = [inter EXCEPT !.pc = "returned"]
       \/ /\ inter.nsteps < MaxSteps
          /\ \E e \in {None} \cup CalcExceptions, written_files \in SUBSET {"orca.gbw"} :
               inter' = IF e = None
                        THEN [inter EXCEPT !.nsteps = @ + 1,
                                           !.items = @ \cup written_files,
                                           !.pc = "yielded"]
                        ELSE [inter EXCEPT !.exc = e, !.pc = "raised"]
    /\ UNCHANGED notInter

StoreNext ==
    \/ store_prepare
    \/ store_scipy_run
    \/ store_loop_body
    \/ store_irun

StoreSpec == StoreInit /\ [][StoreNext]_<<vars, aux>>

(***************************************************************************)
(* src/quacc/schemas/cclib.py: CclibSummarize.opt.  `optrun` is a run      *)
(* directory, a CclibSummarize object and a document store as in           *)
(* CclibSummarize.run, with the optimizer object and the position of the   *)
(* call.                                                                   *)
(***************************************************************************)
caller_store(to_store) == to_store
\* `store=None` in `self.run(final_atoms, store=None)` and in
\* `Summarize(...).opt(dyn, ..., store=None)`
intermediate_store(to_store) == None

\* CclibSummarize.run(final_atoms, store) on the object and directory of s
cclib_run(s, to_store) ==
    LET resolved == IF to_store = QuaccDefault THEN s.settings.STORE ELSE to_store
        base == make_base_cclib_schema(s.listing, s.self.logfile_extensions)
        failed(e, flag) ==
            [s EXCEPT !.results =
               Append(@, [raised |-> e, doc |-> NoDoc, optdone |-> flag,
                          inserted |-> FALSE])]
    IN  IF base.raised # None
        THEN failed(base.raised, base.optdone)
        ELSE IF convergence_error(check_convergence(s.self, s.settings), base.optdone)
        THEN failed("RuntimeError", base.optdone)
        ELSE finalize_dict(
               s,
               Merge(Merge(Merge(run_task_doc("final_atoms", "trajectory[0]"),
                                 intermediate_cclib_task_docs(s.nsteps)),
                           base.doc),
                     s.self.additional_fields),
               resolved, base.optdone)

\* Summarize(...).opt(dyn, trajectory=..., check_convergence=..., store=None):
\* the summary of the ASE optimization, or RuntimeError for an optimizer
\* that did not converge when convergence is checked
opt_run_summary(dyn, check) ==
    IF check = "True" /\ ~dyn.converged
    THEN [raised |-> "RuntimeError", doc |-> NoDoc]
    ELSE [raised |-> None,
          doc |-> [converged |-> dyn.converged, trajectory_results |-> "traj"]]

\* recursive_dict_merge(cclib_summary, opt_run_summary)
recursive_dict_merge(a, b) == Merge(a, b)

notOptrun == <<vars, staging, relax, pair, summary, cache, wflow,
               search, neb, inter, grid>>

OptInit ==
    /\ CoreIdle
    /\ \E l \in Listings, e \in LogExtensions,
          c \in {"True", "False", QuaccDefault},
          sc \in {"True", "False"}, ss \in {None, "db"},
          st \in {None, "db", QuaccDefault}, conv \in BOOLEAN :
         optrun = [listing |-> l, nsteps |-> 0,
                   self |-> [logfile_extensions |-> {e}, check_convergence |-> c,
                             additional_fields |-> NoDoc],
                   settings |-> [CHECK_CONVERGENCE |-> sc, STORE |-> ss],
                   store |-> st, db |-> <<>>, results |-> <<>>,
                   dyn |-> [converged |-> conv],
                   cclib_summary |-> NoDoc, unsorted_task_doc |-> NoDoc,
                   calls |-> 0, pc |-> "idle"]
    /\ staging = None
    /\ relax = None
    /\ pair = None
    /\ summary = None
    /\ cache = None
    /\ wflow = None
    /\ search = None
    /\ neb = None
    /\ inter = None
    /\ grid = None

\* CclibSummarize.opt(dyn, store=store) is called
opt_call ==
    /\ optrun.pc \in {"idle", "returned", "raised"}
    /\ optrun.calls < MaxCalls
    /\ optrun' = [optrun EXCEPT !.calls = @ + 1, !.pc = "called",
                                !.cclib_summary = NoDoc,
                                !.unsorted_task_doc = NoDoc]
    /\ UNCHANGED notOptrun

\* `cclib_summary = self.run(final_atoms, store=None)`
opt_cclib_summary ==
    /\ optrun.pc = "called"
    /\ LET s == cclib_run(optrun, intermediate_store(optrun.store))
           r == s.results[Len(s.results)]
       IN  optrun' = [s EXCEPT !.cclib_summary = r.doc,
                               !.pc = IF r.raised = None THEN "summarized"
                                      ELSE "raised"]
    /\ UNCHANGED notOptrun

\* `opt_run_summary = Summarize(...).opt(...)` and the merge of the two
opt_merge ==
    /\ optrun.pc = "summarized"
    /\ LET o == opt_run_summary(optrun.dyn,
                                check_convergence(optrun.self, optrun.settings))
       IN  optrun' =
             IF o.raised # None
             THEN [optrun EXCEPT !.pc = "raised"]
             ELSE [optrun EXCEPT
                     !.unsorted_task_doc =
                        recursive_dict_merge(optrun.cclib_summary, o.doc),
                     !.pc = "merged"]
    /\ UNCHANGED notOptrun

\* `return finalize_dict(unsorted_task_doc, ..., store=store)`
opt_finalize ==
    /\ optrun.pc = "merged"
    /\ LET to_store == IF optrun.store = QuaccDefault
                       THEN optrun.settings.STORE ELSE optrun.store
       IN  optrun' = [finalize_dict(optrun, optrun.unsorted_task_doc, to_store,
                                    "opt")
                        EXCEPT !.pc = "returned"]
    /\ UNCHANGED notOptrun

OptNext ==
    \/ opt_call
    \/ opt_cclib_summary
    \/ opt_merge
    \/ opt_finalize

OptSpec == OptInit /\ [][OptNext]_<<vars, aux>>

(***************************************************************************)
(* src/quacc/calculators/espresso/utils.py: grid_prepare_repr.  The        *)
(* patterns dictionary is the sequence of its entries' "done" flags, in    *)
(* the order of its keys; a representation is its position.                *)
(***************************************************************************)
\* Representations in the patterns dictionary.
MaxReprs == 3
\* Largest nblocks.
MaxBlocks == 3

PatternDicts == UNION {[1..n -> BOOLEAN] : n \in 0..MaxReprs}

\* `[rep for rep in patterns if not patterns[rep]["done"]]`, from entry k on
RECURSIVE repr_to_do(_, _)
repr_to_do(patterns, k) ==
    IF k > Len(patterns) THEN <<>>
    ELSE IF patterns[k] THEN repr_to_do(patterns, k + 1)
    ELSE <<k>> \o repr_to_do(patterns, k + 1)

\* np.ceil(a / b) for b > 0
ceil_div(a, b) == (a + b - 1) \div b

\* np.array_split(ary, sections): `sections` parts, the first len % sections
\* of them one element longer
array_split(ary, sections) ==
    LET each == Len(ary) \div sections
        extras == Len(ary) % sections
        start(k) == (k - 1) * each + (IF k - 1 < extras THEN k - 1 ELSE extras)
    IN  [k \in 1..sections |-> SubSeq(ary, start(k) + 1, start(k + 1))]

\* grid_prepare_repr(patterns, nblocks): the blocks, or the exception raised
grid_prepare_repr(patterns, nblocks) ==
    LET this_block == IF nblocks > 0 THEN nblocks ELSE Len(patterns)
        to_do == repr_to_do(patterns, 1)
    IN  IF this_block = 0
        THEN [raised |-> "ZeroDivisionError", blocks |-> <<>>]
        ELSE IF ceil_div(Len(to_do), this_block) <= 0
        THEN [raised |-> "ValueError", blocks |-> <<>>]
        ELSE [raised |-> None,
              blocks |-> array_split(to_do, ceil_div(Len(to_do), this_block))]

notGrid == <<vars, staging, relax, pair, summary, cache, wflow,
             search, neb, inter, optrun>>

GridInit ==
    /\ CoreIdle
    /\ \E p \in PatternDicts, n \in -1..MaxBlocks :
         grid = [patterns |-> p, nblocks |-> n, raised |-> None, blocks |-> <<>>,
                 pc |-> "called"]
    /\ staging = None
    /\ relax = None
    /\ pair = None
    /\ summary = None
    /\ cache = None
    /\ wflow = None
    /\ search = None
    /\ neb = None
    /\ inter = None
    /\ optrun = None

grid_prepare_repr_call ==
    /\ grid.pc = "called"
    /\ LET r == grid_prepare_repr(grid.patterns, grid.nblocks)
       IN  grid' = [grid EXCEPT !.raised = r.raised, !.blocks = r.blocks,
                                !.pc = "ended"]
    /\ UNCHANGED notGrid

GridNext == grid_prepare_repr_call

GridSpec == GridInit /\ [][GridNext]_<<vars, aux>>

(***************************************************************************)
(* Properties.                                                             *)
(***************************************************************************)
RunCalcOps == {"util.run_calc", "runners.run_calc"}
\* file names present in a directory, in either form
names_in(dir) == {k[1] : k \in dir.present}
LastRead == geomRead[Len(geomRead)]

\* C1: every invocation of run_calc, run_opt and run_vib of the runners makes
\* exactly one archival pass over its scratch directory, on every exit path.
C1_ExactlyOneArchivalPass ==
    (op \in RunnerOps /\ Ended) => passes = 1

\* C2: when the computation raises, every file written to the scratch
\* directory is in the results directory once the exception reaches the caller.
C2_PartialOutputArchived ==
    (pc = "raised" /\ failure = "computation")
        => names_in(scratch) \subseteq names_in(launch)

\* C3: when the calculator raises inside run_calc, the caller gets the original
\* exception, after the archival pass has been made, and no Atoms is returned.
C3_OriginalExceptionAfterArchival ==
    (op \in RunCalcOps /\ pc = "raised" /\ failure = "computation")
        => (exc = raisedExc /\ passes = 1 /\ ret = None)

\* C4: once run_calc, run_ase_opt or run_ase_vib has ended, by return or by
\* exception, the alias tmp_dir that its staging made no longer exists.
C4_AliasReleased ==
    (op \in UtilOps /\ Ended /\ tmpdir # 0) => symlink # tmpdir

\* C5: an alias tmp_dir that exists when staging begins is replaced: after
\* staging it points to the scratch directory this invocation created, which
\* exists.
C5_StaleAliasReplaced ==
    (op \in UtilOps /\ pc = "staged" /\ entry.symlink # 0)
        => (symlink = tmpdir /\ tmpdir \notin entry.tmpdirs /\ tmpdir \in tmpdirs)
C5_Witness ==
    /\ op \in UtilOps
    /\ pc = "staged"
    /\ entry.symlink # 0
    /\ symlink = tmpdir
    /\ symlink # entry.symlink

\* C6: the Atoms that run_calc returns has the number of atoms and the
\* sequence of atomic numbers of the Atoms passed in.
C6_SpeciesPreserved ==
    (op \in RunCalcOps /\ pc = "returned")
        => /\ Len(heap[ret].numbers) = Len(entry.atoms.numbers)
           /\ heap[ret].numbers = entry.atoms.numbers
C6_Witness ==
    /\ op \in RunCalcOps
    /\ pc = "returned"
    /\ geomRead # <<>>
    /\ heap[ret].numbers = entry.atoms.numbers
    /\ heap[ret].numbers # geomRead[1].numbers

\* C7: when run_calc parses a geometry-output file, only positions and cell
\* are overwritten: the calculator, its results and every other field of the
\* returned Atoms are those of the Atoms right after the computation.
C7_OnlyGeometryOverwritten ==
    (op \in RunCalcOps /\ pc = "returned" /\ geomRead # <<>>)
        => /\ [heap[ret] EXCEPT !.positions = postCalc.positions,
                                !.cell = postCalc.cell] = postCalc
           /\ heap[ret].calc = entry.atoms.calc
           /\ heap[ret].results = "energy"
C7_Witness ==
    /\ op \in RunCalcOps
    /\ pc = "returned"
    /\ geomRead # <<>>
    /\ heap[ret].positions # postCalc.positions
    /\ heap[ret].cell # postCalc.cell
    /\ heap[ret].calc = "EMT"
    /\ heap[ret].results = "energy"

\* C8: when the last frame of the geometry-output file read by run_calc has
\* other atomic numbers than the input, run_calc raises ValueError, leaves
\* positions and cell as they were and returns nothing; otherwise the frame
\* applied is the last one.
C8_MismatchRaises ==
    (op \in RunCalcOps /\ geomRead # <<>>)
        => IF LastRead.numbers # entry.atoms.numbers
           THEN /\ pc = "raised"
                /\ exc = "ValueError"
                /\ ret = None
                /\ heap[atomsRef].positions = postCalc.positions
                /\ heap[atomsRef].cell = postCalc.cell
           ELSE /\ pc \in {"resynced", "returned"}
                /\ heap[atomsRef].positions = LastRead.positions
                /\ heap[atomsRef].cell = LastRead.cell
C8_Witness ==
    /\ op \in RunCalcOps
    /\ Len(geomRead) > 1
    /\ LastRead.numbers # entry.atoms.numbers
    /\ geomRead[1].numbers = entry.atoms.numbers
    /\ pc = "raised"
    /\ exc = "ValueError"

\* C9: the runners never modify the caller's Atoms: in every state of an
\* invocation its positions, cell and species are those at entry.
C9_CallerAtomsUntouched ==
    (op \in Ops /\ pc # "idle")
        => /\ heap.caller.positions = entry.atoms.positions
           /\ heap.caller.cell = entry.atoms.cell
           /\ heap.caller.numbers = entry.atoms.numbers
C9_Witness ==
    /\ op \in {"runners.run_calc", "runners.run_opt"}
    /\ Ended
    /\ atomsRef = "copy"
    /\ heap.copy.positions # entry.atoms.positions
    /\ heap.caller.positions = entry.atoms.positions

\* C10: run_calc, run_ase_opt and run_ase_vib raise ValueError for an Atoms
\* without calculator before any side effect: no scratch root, no scratch
\* directory, no alias, no copied file, the working directory unchanged.
C10_NoCalculatorNoSideEffect ==
    (op \in UtilOps /\ entry.atoms.calc = None /\ pc # "called")
        => /\ pc = "raised"
           /\ exc = "ValueError"
           /\ scratchRoot = entry.scratchRoot
           /\ tmpdirs = entry.tmpdirs
           /\ tmpdir = 0
           /\ symlink = entry.symlink
           /\ launch = entry.launch
           /\ scratch = EmptyDir
           /\ cwd = entry.cwd
C10_Witness ==
    /\ op \in UtilOps
    /\ entry.atoms.calc = None
    /\ pc = "raised"
    /\ exc = "ValueError"
    /\ args.copy_files
    /\ args.scratch_dir
    /\ ~scratchRoot
    /\ <<InName, "">> \in launch.present

\* C11: copy_decompress raises nothing when listed files are missing: it
\* warns once for each missing entry, and every listed file that exists, in
\* plain or compressed form, before or after a missing one, has a plain
\* (decompressed) copy in the destination.
StagedSoFar == 1..(staging.i - 1)
Missing(j) ==
    ~exists(staging.source, zpath(staging.source, staging.source_files[j]))
C11_BestEffortStaging ==
    /\ staging.pc # "raised"
    /\ Len(staging.warnings) = Cardinality({j \in StagedSoFar : Missing(j)})
    /\ \A j \in StagedSoFar :
         ~Missing(j) => <<staging.source_files[j], "">> \in staging.destination.present
    /\ \A k \in staging.destination.present : k[2] = ""
C11_Witness ==
    /\ staging.pc = "returned"
    /\ Len(staging.source_files) = 3
    /\ Missing(2)
    /\ <<staging.source_files[1], "">> \in staging.source.present
    /\ <<staging.source_files[3], ".gz">> \in staging.source.present
    /\ <<staging.source_files[3], "">> \notin staging.source.present
    /\ <<staging.source_files[3], "">> \in staging.destination.present
    /\ Len(staging.warnings) = 1

\* C12: when the copy manifest names a file that is stored compressed, its
\* decompressed copy is in the scratch directory at the moment the calculator,
\* optimizer or vibration run is about to start.
AboutToCompute == op \in Ops /\ pc \in {"staged", "ready"}
StoredCompressed(dir, name) ==
    <<name, ".gz">> \in dir.present /\ <<name, "">> \notin dir.present
C12_DecompressedBeforeRun ==
    (AboutToCompute /\ args.copy_files /\ StoredCompressed(entry.launch, InName))
        => /\ <<InName, "">> \in scratch.present
           /\ <<InName, ".gz">> \notin scratch.present
C12_Witness ==
    /\ op \in UtilOps
    /\ pc = "staged"
    /\ args.copy_files
    /\ StoredCompressed(launch, InName)
    /\ scratch.present = {<<InName, "">>}

RelaxEnded == relax.pc \in {"returned", "raised"}
\* the geometries evaluated before the last one were not converged
NoEarlierStop(below(_, _)) ==
    \A k \in 1..relax.nsteps : ~below(relax.forces[k], relax.fmax)
AtMost(f, t) == f <= t
Below(f, t) == f < t
StoppedBy(below(_, _)) ==
    /\ relax.nsteps <= relax.max_steps
    /\ NoEarlierStop(below)
    /\ \/ below(relax.forces[relax.nsteps + 1], relax.fmax)
       \/ relax.nsteps = relax.max_steps

C14_HookOncePerStep ==
    (relax.pc = "returned" /\ relax.runner = "run_opt" /\ relax.fn_hook)
        => relax.hook_calls = [k \in 1..relax.nsteps |-> k]

\* C15: two interleaved invocations launched from the same directory share
\* nothing but the working directory: their scratch directories differ, and
\* from its staging to its archival each invocation's alias points to its own
\* scratch directory, whatever the other one does.
HoldsAlias(i) == pair[i].pc \in {"staged", "running", "computed"}
C15_NoSharedAlias ==
    /\ \A i \in Invocations : HoldsAlias(i) => symlink = pair[i].tmpdir
    /\ (pair[1].tmpdir # 0 /\ pair[2].tmpdir # 0)
          => pair[1].tmpdir # pair[2].tmpdir

CheckingEnabled ==
    \/ summary.self.check_convergence = "True"
    \/ /\ summary.self.check_convergence = QuaccDefault
       /\ summary.settings.CHECK_CONVERGENCE = "True"
JustCalled == cache.calls > 0 /\ cache.atoms.calc = NoCalc
C18_CacheAppendsResults ==
    JustCalled
      => /\ cache.passed = cache.before
         /\ has_results(cache.passed)
              => /\ Len(cache.atoms.info_results)
                      = Len(cache.passed.info_results) + 1
                 /\ cache.atoms.info_results[Len(cache.atoms.info_results)].magmom
                      = cache.passed.calc[1].magmom
                 /\ \A k \in 1..Len(cache.passed.info_results) :
                      cache.atoms.info_results[k] = cache.passed.info_results[k]

\* the same function: the same object, or a copy of it
SameFunction(a, b) == a = b \/ wflow.objs[a] = wflow.objs[b]

\* C19: for every engine and every function f, strip_decorator(job(f)),
\* strip_decorator(flow(f)) and strip_decorator(subflow(f)) are f.
C19_StripUndoesDecoration ==
    wflow.pc = "stripped" => SameFunction(wflow.stripped, wflow.f)

\* what a customized function binds its parameters to (functools.partial)
Unbound(x) == IF wflow.objs[x].kind = "partial" THEN wflow.objs[x].func ELSE x

\* C20: customize_funcs replaces decorators: a function named in decorators
\* comes back as decorators[name] applied to its undecorated original (the
\* original itself for None), with common_params or without; the others keep
\* their decoration; the results are in the order of funcs.
C20_CustomizeReplacesDecorators ==
    (wflow.pc = "customized" /\ wflow.objs[wflow.f].wrapped \in {0, wflow.f})
      => /\ Len(wflow.updated_funcs) = Len(wflow.funcs)
         /\ \A k \in 1..Len(wflow.funcs) :
              LET name == wflow.funcs[k].name
                  got == wflow.updated_funcs[k]
              IN  IF name \notin DOMAIN wflow.decorators
                  THEN Unbound(got) = wflow.funcs[k].func
                  ELSE IF wflow.decorators[name] = None
                  THEN SameFunction(Unbound(got), wflow.f)
                  ELSE /\ wflow.objs[got].kind = wflow.decorators[name]
                       /\ SameFunction(Unbound(wflow.objs[got].func), wflow.f)

\* the entries of the listing a given extension list matches
Matching(listing, exts) ==
    {i \in 1..Len(listing) : \E e \in 1..Len(exts) : ext_in(exts[e], listing[i].name)}
\* the matching entries no other matching entry is more recent than
MostRecent(listing, exts) ==
    {i \in Matching(listing, exts) :
       \A j \in Matching(listing, exts) : listing[j].mtime <= listing[i].mtime}
Reordered(s, p) == [i \in 1..Len(s) |-> s[p[i]]]
Reorderings(s) ==
    {Reordered(s, p) :
       p \in {q \in [1..Len(s) -> 1..Len(s)] :
                \A i \in 1..Len(s), j \in 1..Len(s) : i # j => q[i] # q[j]}}

Dated(listing, exts) == {i \in Matching(listing, exts) : listing[i].mtime > 0}

C22_FullNameMatchesExactly ==
    (search.pc = "returned" /\ search.logfile_extensions = << <<"orca", ".out">> >>)
      => search.logfile \in {NoLogfile, <<"orca", ".out">>}

\* the invocation has copied its scratch directory back
Archived == op \in UtilOps /\ passes >= 1 /\ pc \in {"archived", "returned", "raised"}

\* C23: archival honours the gzip flag.  Without gzip the launch directory
\* gains exactly the scratch files under their own names, and no .gz file;
\* with gzip every scratch file arrives with the .gz suffix, a file staged
\* through copy_files included.  The caller's source file stays in place.
C23_ArchivalHonoursGzip ==
    Archived =>
      /\ entry.launch.present \subseteq launch.present
      /\ ~args.gzip =>
           /\ launch.present = entry.launch.present \cup scratch.present
           /\ \A k \in launch.present \ entry.launch.present : k[2] = ""
      /\ args.gzip =>
           /\ \A k \in scratch.present : k[2] = ".gz" /\ k \in launch.present
           /\ \A k \in launch.present \ entry.launch.present : k[2] = ".gz"
           /\ (args.copy_files /\ found_files({InName}, entry.launch) # {})
                => <<InName, ".gz">> \in launch.present

C23_Witness ==
    /\ Archived
    /\ op = "util.run_ase_opt"
    /\ args.gzip /\ args.copy_files
    /\ <<InName, "">> \in entry.launch.present
    /\ <<InName, ".gz">> \in launch.present \ entry.launch.present
    /\ <<OutName, ".gz">> \in launch.present

\* C24: the optimizer runner writes its trajectory to opt.traj when the
\* caller names none and to the caller's file when one is named in the
\* optimizer keyword arguments, and carries out the run in both cases.
C24_TrajectoryNameHonoured ==
    (/\ op \in {"util.run_ase_opt", "runners.run_opt"}
     /\ Ended
     /\ has_calculator(heap.caller)
     /\ lower(args.optimizer) \in KnownOptimizers)
      => /\ failure # "validation"
         /\ trajectory_file(op, args) =
              IF args.trajectory THEN "new_test.traj" ELSE "opt.traj"

\* C25: when an invocation of run_calc, run_ase_opt or run_ase_vib of
\* quacc/util/calc.py has ended, by return or by an exception raised from
\* the computation, the working directory is the one it was entered from.
C25_WorkingDirectoryRestored ==
    (op \in UtilOps /\ Ended /\ failure \in {None, "computation"})
      => cwd = entry.cwd

\* the functions met by following __wrapped__ from x, and whether one is met twice
RECURSIVE FollowWrapped(_, _)
FollowWrapped(x, seen) ==
    IF x \in seen THEN [twice |-> TRUE, met |-> seen]
    ELSE IF wflow.objs[x].wrapped = 0 THEN [twice |-> FALSE, met |-> seen \cup {x}]
    ELSE FollowWrapped(wflow.objs[x].wrapped, seen \cup {x})

\* C26: under every engine, following __wrapped__ from job(f), flow(f) or
\* subflow(f) reaches f without meeting a function twice, and f is not given
\* a __wrapped__ attribute that refers to f.  (A covalent Lattice keeps f as
\* its workflow function, not as __wrapped__.)
C26_NoSelfWrapped ==
    wflow.pc = "decorated" =>
      /\ wflow.objs[wflow.f].wrapped # wflow.f
      /\ ~FollowWrapped(wflow.decorated, {}).twice
      /\ wflow.engine # "covalent" => wflow.f \in FollowWrapped(wflow.decorated, {}).met

\* C27: when run_path_opt has ended, by return or by an exception, every
\* directory it staged has been archived exactly once by calc_cleanup, each
\* image with the directories of its own calc_setup call.
C27_EveryStagedDirectoryArchived ==
    neb.pc \in {"returned", "raised"} =>
      \A i \in 1..Len(neb.dir_lists) :
        /\ Cardinality({k \in 1..Len(neb.cleaned) :
                          neb.cleaned[k].tmpdir = neb.dir_lists[i][1]}) = 1
        /\ \A k \in 1..Len(neb.cleaned) :
             neb.cleaned[k].image = i =>
               /\ neb.cleaned[k].tmpdir = neb.dir_lists[i][1]
               /\ neb.cleaned[k].job_results_dir = neb.dir_lists[i][2]

\* C28: with store_intermediate_results, for every optimizer class iterated
\* step by step (every class but SciPy's), each pass of the loop has its
\* directory: step0, step1, ... in order, one per value yielded, at least one
\* per step taken, each holding the scratch items of that moment but the
\* trajectory, restart and log files, and never a step directory.
C28_StepDirectoryPerStep ==
    (inter.store_intermediate_results /\ ~is_scipy(inter.optimizer)
       /\ inter.pc \in {"stepping", "returned", "raised"})
      => /\ Len(inter.steps) = inter.passes
         /\ Len(inter.steps) >= inter.nsteps
         /\ \A n \in 1..Len(inter.steps) :
              /\ inter.steps[n] \cap {TrajFile, RestartFile, LogFile} = {}
              /\ inter.steps[n] \subseteq inter.items
              /\ "orca.out" \in inter.steps[n]

\* the calls of CclibSummarize.opt that have returned
OptReturned ==
    Cardinality({k \in 1..Len(optrun.results) : optrun.results[k].optdone = "opt"})

\* C29: a call of CclibSummarize.opt inserts its final merged document into
\* the store at most once, and never the cclib run summary or the ASE
\* optimization summary it builds on the way.
C29_OneDocumentPerOptCall ==
    /\ Len(optrun.db) <= OptReturned
    /\ Len(optrun.db) <= optrun.calls
    /\ \A k \in 1..Len(optrun.db) :
         {"logfile", "trajectory_results"} \subseteq DOMAIN optrun.db[k]
    /\ \A k \in 1..Len(optrun.results) :
         optrun.results[k].optdone # "opt" => ~optrun.results[k].inserted

C29_Witness ==
    /\ optrun.pc = "returned"
    /\ optrun.calls = 2
    /\ Len(optrun.db) = 2
    /\ Len(optrun.results) = 4

\* the representations not marked done
NotDone == {k \in 1..Len(grid.patterns) : ~grid.patterns[k]}
\* the blocks a representation is in
BlocksOf(rep) ==
    {b \in 1..Len(grid.blocks) :
       \E i \in 1..Len(grid.blocks[b]) : grid.blocks[b][i] = rep}

\* C30: grid_prepare_repr returns, without error, blocks that partition the
\* representations not done: each of them in exactly one block, none that is
\* done in any, no block empty, at most nblocks in a block when nblocks > 0,
\* a single block when nblocks <= 0, and no block at all when all are done.
C30_BlocksPartitionNotDone ==
    grid.pc = "ended" =>
      /\ grid.raised = None
      /\ \A rep \in 1..Len(grid.patterns) :
           Cardinality(BlocksOf(rep)) = IF rep \in NotDone THEN 1 ELSE 0
      /\ \A b \in 1..Len(grid.blocks) :
           /\ Len(grid.blocks[b]) > 0
           /\ Len(grid.blocks[b]) = Cardinality({grid.blocks[b][i] :
                                                   i \in 1..Len(grid.blocks[b])})
           /\ grid.nblocks > 0 => Len(grid.blocks[b]) <= grid.nblocks
      /\ (grid.nblocks <= 0 /\ NotDone # {}) => Len(grid.blocks) = 1
      /\ NotDone = {} => grid.blocks = <<>>

====
